---- MODULE Spec2Model ----
(***************************************************************************)
(* A model of rustybrain: the rolling reward window (RewardTracker,        *)
(* RewardNormalizer), the bandit strategies (EpsilonGreedy, Ucb1), the     *)
(* REST registry that owns them behind one mutex, and the hill climber     *)
(* (HillClimber1D).                                                        *)
(*                                                                         *)
(* Numbers.  The program computes in f64.  The model computes in exact     *)
(* rationals <<n, d>> (d > 0, lowest terms): the rewards it feeds are      *)
(* small integers, and sums, differences and quotients by a count are      *)
(* then exact, so that equality of two rationals is equality of the pair.  *)
(* The exceptions are the RewardNormalizer, whose normalized branches on   *)
(* an exact comparison of a computed f64 with 0.0, and the climber's run   *)
(* of a hundred cycles on a quadratic reward: their values are binary64    *)
(* numbers and their arithmetic rounds as IEEE 754 does.                   *)
(***************************************************************************)
EXTENDS Integers, Sequences, FiniteSets, TLC

\* ------------------------------------------------------------------ bounds
\* Largest window a stand-alone tracker or normalizer is built with.
MaxWindow == 3
\* Most values fed to the stand-alone tracker and normalizer together.
MaxFeed == 5

\* Most arms a bandit is built with.
MaxArms == 3
\* Most update calls made on the stand-alone bandit.
MaxPulls == 3
\* Most select_arm calls made on the stand-alone bandit.
MaxSelects == 2
\* Most calls started on the registry that can change it: creates that pass
\* validation, updates of a known id, selects of a known epsilon-greedy id.
MaxOps == 3

\* The rewards the environment supplies.
Rewards == {0, 1, 3}
\* The rewards supplied to the stand-alone normalizer, as the f64 values of
\* the literals 0.1, 1.0, 3.0: <<n, d>> stands for n/d.
NormRewards == {<<1, 10>>, <<1, 1>>, <<3, 1>>}
\* The rewards supplied through the registry.
RegRewards == {1, 3}
\* The exploration probabilities an EpsilonGreedy is built with.
Epsilons == {<<0, 1>>, <<1, 2>>, <<1, 1>>}
\* The exploration factors a Ucb1 is built with.
Cs == {<<0, 1>>, <<2, 1>>}

\* --------------------------------------------------------------- rationals
Abs(i) == IF i < 0 THEN -i ELSE i

RECURSIVE Gcd(_, _)
Gcd(a, b) == IF b = 0 THEN a ELSE Gcd(b, a % b)

\* The rational n/d (d # 0) in lowest terms with a positive denominator.
Rat(n, d) ==
    LET g == Gcd(Abs(n), Abs(d))
        s == IF d < 0 THEN -1 ELSE 1
    IN  <<(s * n) \div g, (s * d) \div g>>

RInt(i) == <<i, 1>>
RZero == RInt(0)
RAdd(a, b) == Rat(a[1] * b[2] + b[1] * a[2], a[2] * b[2])
RSub(a, b) == Rat(a[1] * b[2] - b[1] * a[2], a[2] * b[2])
RDivInt(a, k) == Rat(a[1], a[2] * k)
RLt(a, b) == a[1] * b[2] < b[1] * a[2]
RGt(a, b) == RLt(b, a)
RGe(a, b) == ~RLt(a, b)
RMul(a, b) == Rat(a[1] * b[1], a[2] * b[2])
RNeg(a) == <<-a[1], a[2]>>
RMax(a, b) == IF RLt(a, b) THEN b ELSE a

\* An f64 that is not a number: it compares false with everything.
NaN == <<0, 0>>
IsNaN(a) == a[2] = 0
F64Ge(a, b) == ~IsNaN(a) /\ ~IsNaN(b) /\ RGe(a, b)

\* Option<T>: None, or Some(v).
None == <<>>
Some(v) == <<v>>

\* ------------------------------------------------------ binary64 numbers
\* Where a branch hangs on an exact comparison of computed f64 values, the
\* values are IEEE 754 binary64 numbers: sign * m * 2^e with m a natural
\* number of exactly SignificandBits bits (or zero), every operation rounded
\* to nearest, ties to even. Exponents are not limited: the values used
\* stay far from overflow and underflow.
\*
\* A natural number of any size is the sequence of its digits in base
\* 2^LimbBits, least significant first, with no leading zero; zero is <<>>.
LimbBits == 13
Base == 2^LimbBits
SignificandBits == 53

Limb(a, i) == IF i <= Len(a) THEN a[i] ELSE 0
Max2(a, b) == IF a > b THEN a ELSE b
Min2(a, b) == IF a < b THEN a ELSE b

BTrim(a) ==
    LET nz == {i \in 1..Len(a) : a[i] # 0}
    IN  IF nz = {} THEN <<>>
        ELSE SubSeq(a, 1, CHOOSE i \in nz : \A j \in nz : j <= i)

RECURSIVE BOfInt(_)
BOfInt(i) == IF i = 0 THEN <<>> ELSE <<i % Base>> \o BOfInt(i \div Base)

RECURSIVE BAddC(_, _, _, _)
BAddC(a, b, i, c) ==
    IF i > Max2(Len(a), Len(b)) THEN BOfInt(c)
    ELSE LET d == Limb(a, i) + Limb(b, i) + c
         IN  <<d % Base>> \o BAddC(a, b, i + 1, d \div Base)
BAdd(a, b) == BAddC(a, b, 1, 0)

\* a - b for a >= b.
RECURSIVE BSubC(_, _, _, _)
BSubC(a, b, i, c) ==
    IF i > Len(a) THEN <<>>
    ELSE LET d == a[i] - Limb(b, i) - c
         IN  <<(d + Base) % Base>> \o BSubC(a, b, i + 1, IF d < 0 THEN 1 ELSE 0)
BSub(a, b) == BTrim(BSubC(a, b, 1, 0))

BLt(a, b) ==
    IF Len(a) # Len(b) THEN Len(a) < Len(b)
    ELSE \E i \in 1..Len(a) :
            a[i] < b[i] /\ \A j \in (i + 1)..Len(a) : a[j] = b[j]

\* a * k for 0 <= k < Base.
RECURSIVE BMulSmallC(_, _, _, _)
BMulSmallC(a, k, i, c) ==
    IF i > Len(a) THEN BOfInt(c)
    ELSE LET d == a[i] * k + c
         IN  <<d % Base>> \o BMulSmallC(a, k, i + 1, d \div Base)
BMulSmall(a, k) == IF k = 0 THEN <<>> ELSE BMulSmallC(a, k, 1, 0)

\* a * Base^n.
BShiftLimbs(a, n) == IF a = <<>> THEN <<>> ELSE [i \in 1..n |-> 0] \o a

RECURSIVE BMulFrom(_, _, _)
BMulFrom(a, b, j) ==
    IF j > Len(b) THEN <<>>
    ELSE BAdd(BShiftLimbs(BMulSmall(a, b[j]), j - 1), BMulFrom(a, b, j + 1))
BMul(a, b) == BMulFrom(a, b, 1)

\* Quotient and remainder of the digits 1..i of a, with r carried in from
\* above, by k for 0 < k < Base.
RECURSIVE BDivFrom(_, _, _, _)
BDivFrom(a, k, i, r) ==
    IF i = 0 THEN [q |-> <<>>, r |-> r]
    ELSE LET cur == r * Base + a[i]
             rest == BDivFrom(a, k, i - 1, cur % k)
         IN  [q |-> Append(rest.q, cur \div k), r |-> rest.r]
BDivSmall(a, k) ==
    LET d == BDivFrom(a, k, Len(a), 0) IN [q |-> BTrim(d.q), r |-> d.r]

BitLen(a) ==
    IF a = <<>> THEN 0
    ELSE LimbBits * (Len(a) - 1)
            + (CHOOSE n \in 1..LimbBits :
                   2^(n - 1) <= a[Len(a)] /\ a[Len(a)] < 2^n)

\* a * 2^s, and a divided by 2^s rounded down.
BShl(a, s) == BShiftLimbs(BMulSmall(a, 2^(s % LimbBits)), s \div LimbBits)
BShr(a, s) ==
    IF s \div LimbBits >= Len(a) THEN <<>>
    ELSE BDivSmall(SubSeq(a, (s \div LimbBits) + 1, Len(a)),
                   2^(s % LimbBits)).q

BOdd(a) == a # <<>> /\ a[1] % 2 = 1

\* a divided by 2^s (s > 0) rounded to nearest, ties to even.
BRoundShr(a, s) ==
    LET q == BShr(a, s)
        r == BSub(a, BShl(q, s))
        half == BShl(<<1>>, s - 1)
    IN  IF BLt(half, r) \/ (r = half /\ BOdd(q)) THEN BAdd(q, <<1>>) ELSE q

F64Zero == [sign |-> 1, m |-> <<>>, e |-> 0]
F64IsZero(a) == a.m = <<>>

\* The binary64 number nearest to sign * M * 2^E.
F64Round(sign, M, E) ==
    IF M = <<>> THEN F64Zero
    ELSE LET n == BitLen(M)
         IN  IF n <= SignificandBits
             THEN [sign |-> sign, m |-> BShl(M, SignificandBits - n),
                   e |-> E - (SignificandBits - n)]
             ELSE LET q == BRoundShr(M, n - SignificandBits)
                  IN  IF BitLen(q) > SignificandBits
                      THEN [sign |-> sign, m |-> BShr(q, 1),
                            e |-> E + (n - SignificandBits) + 1]
                      ELSE [sign |-> sign, m |-> q,
                            e |-> E + (n - SignificandBits)]

F64Neg(a) == IF F64IsZero(a) THEN a ELSE [a EXCEPT !.sign = -a.sign]

F64Add(a, b) ==
    IF F64IsZero(a) THEN b
    ELSE IF F64IsZero(b) THEN a
    ELSE LET e == Min2(a.e, b.e)
             A == BShl(a.m, a.e - e)
             B == BShl(b.m, b.e - e)
         IN  IF a.sign = b.sign THEN F64Round(a.sign, BAdd(A, B), e)
             ELSE IF BLt(A, B) THEN F64Round(b.sign, BSub(B, A), e)
             ELSE F64Round(a.sign, BSub(A, B), e)

F64Sub(a, b) == F64Add(a, F64Neg(b))

F64Mul(a, b) ==
    IF F64IsZero(a) \/ F64IsZero(b) THEN F64Zero
    ELSE F64Round(a.sign * b.sign, BMul(a.m, b.m), a.e + b.e)

\* a / (k as f64) for 0 < k < Base: the quotient is taken with two more
\* digits and a last bit that says whether anything was left over.
F64DivInt(a, k) ==
    IF F64IsZero(a) THEN F64Zero
    ELSE LET d == BDivSmall(BShiftLimbs(a.m, 2), k)
             M == BAdd(BShl(d.q, 1), IF d.r = 0 THEN <<>> ELSE <<1>>)
         IN  F64Round(a.sign, M, a.e - 2 * LimbBits - 1)

F64Lt(a, b) == F64Sub(a, b).sign = -1

\* An integer as f64, and the f64 a decimal literal n/d stands for.
F64OfInt(i) == F64Round(IF i < 0 THEN -1 ELSE 1, BOfInt(Abs(i)), 0)
F64Of(n, d) == F64DivInt(F64OfInt(n), d)

\* The sum of a sequence of numbers, by halves: sums are exact here, so the
\* grouping does not change them.
RECURSIVE RSum(_)
RSum(s) ==
    IF s = <<>> THEN RZero
    ELSE IF Len(s) = 1 THEN s[1]
    ELSE LET h == Len(s) \div 2
         IN  RAdd(RSum(SubSeq(s, 1, h)), RSum(SubSeq(s, h + 1, Len(s))))

\* The last k elements of s (all of s when it is shorter).
LastN(s, k) == IF Len(s) <= k THEN s ELSE SubSeq(s, Len(s) - k + 1, Len(s))


\* ------------------------------------------------------------ variables
VARIABLES
    rt,          \* a stand-alone RewardTracker: [window, values]
    rtFed,       \* history: every value passed to rt's update, oldest first
    rn,          \* a stand-alone RewardNormalizer: [window, values]
    rnFed,       \* history: every value passed to rn's update, oldest first
    bandit,      \* a stand-alone strategy: an EpsilonGreedy or a Ucb1
    calls,       \* history: per arm, the number of update calls made with it
    sums,        \* history: per arm, the sum of the rewards of those calls
    lastArm,     \* what the latest select_arm returned (-1: none yet)
    scored,      \* whether the latest Ucb1 select_arm ran its score loop
    sinceUpdate, \* select_arm calls since the latest update (counted to 2)
    pairs,       \* select_arm/update(selected arm) rounds made since
                 \* construction, counted to num_arms; -1 once an update
                 \* took another arm
    panicked,    \* the stand-alone bandit's thread has panicked
    map,         \* Registry.map: id -> Strategy, behind the mutex
    lock,        \* the task holding the mutex, or NoTask
    poisoned,    \* the mutex's poison flag
    stream,      \* the draws made so far, by any instance, from the
                 \* generator seeded with 42: every instance reads this
                 \* one sequence from its own position
    pc,          \* per task: where its handler is
    req,         \* per task: the request it handles
    resp,        \* per task: the response it is about to return
    issued,      \* the number of ids generated
    returned,    \* history: the ids create has returned
    log,         \* history: per id, the num_arms it was created with,
                 \* for an epsilon-greedy id the select and update calls
                 \* it served, in order, each select with the arm returned,
                 \* and the rewards of its successful updates
    ops,         \* the number of calls started that can change the registry
    hc,          \* a HillClimber1D: its eight fields
    hcHist,      \* history: the calls made on hc, oldest first, each with
                 \* the state it found and what it returned
    hcOps        \* the number of calls made on hc

windowVars == <<rt, rtFed, rn, rnFed>>
banditVars == <<bandit, calls, sums, lastArm, scored, sinceUpdate, pairs, panicked>>
registryVars == <<map, lock, poisoned, stream, pc, req, resp, issued, returned, log, ops>>
climberVars == <<hc, hcHist, hcOps>>
vars == <<windowVars, banditVars, registryVars, climberVars>>

\* ------------------------------------------- RewardTracker, RewardNormalizer
RewardTracker_new(window) == [window |-> window, values |-> <<>>]

\* A slip: drops the newest element instead of the oldest.
RemoveNewest(values) == SubSeq(values, 1, Len(values) - 1)

\* Drops the first element when the buffer is full.
RemoveOldest(values) == Tail(values)

RewardTracker_update(t, reward) ==
    LET kept == IF Len(t.values) = t.window THEN RemoveOldest(t.values) ELSE t.values
    IN  [t EXCEPT !.values = Append(kept, reward)]

RewardNormalizer_new(window) == [window |-> window, values |-> <<>>]

RewardNormalizer_update(n, reward) ==
    LET kept == IF Len(n.values) = n.window THEN RemoveOldest(n.values) ELSE n.values
    IN  [n EXCEPT !.values = Append(kept, reward)]

\* iter().sum::<f64>(): the values added one by one to 0.0, from the left.
RECURSIVE F64SumTo(_, _)
F64SumTo(values, k) ==
    IF k = 0 THEN F64Zero ELSE F64Add(F64SumTo(values, k - 1), values[k])
F64Sum(values) == F64SumTo(values, Len(values))

RewardNormalizer_mean(n) == F64DivInt(F64Sum(n.values), Len(n.values))

\* The variance std takes the square root of. The root itself is not
\* computed: it is 0.0 exactly when the variance is.
RewardNormalizer_var(n, mean) ==
    LET squares == [i \in 1..Len(n.values) |->
                       LET d == F64Sub(n.values[i], mean) IN F64Mul(d, d)]
    IN  F64DivInt(F64Sum(squares), Len(n.values))

\* What normalized returns: the constant 0.5, or the sigmoid
\* 1 / (1 + exp(-z)) of z = num / sqrt(var), which is left unevaluated.
Half == [sigmoid |-> FALSE, num |-> F64Zero, var |-> F64Zero]
Sigmoid(num, var) == [sigmoid |-> TRUE, num |-> num, var |-> var]

RewardNormalizer_normalized(n, reward) ==
    IF n.values = <<>> THEN Half
    ELSE LET mean == RewardNormalizer_mean(n)
             var == RewardNormalizer_var(n, mean)
         IN  IF F64IsZero(var) THEN Half
             ELSE Sigmoid(F64Sub(reward, mean), var)

\* ------------------------------------------------------------ bandit state
\* counts and values are indexed by arm + 1: arm 0 is element 1.
Zeros(n) == [i \in 1..n |-> 0]
RZeros(n) == [i \in 1..n |-> RZero]

\* A slip: divides by one more than the new count.
IncrementalMeanStale(value, reward, n) ==
    RAdd(value, RDivInt(RSub(reward, value), n + 1))

\* The incremental mean of both strategies' update.
IncrementalMean(value, reward, n) == RAdd(value, RDivInt(RSub(reward, value), n))

\* Indexing a Vec with chosen_arm panics unless chosen_arm < len.
IndexInRange(b, chosen_arm) == chosen_arm + 1 \in 1..Len(b.counts)

\* ------------------------------------------------------------ EpsilonGreedy
\* rng is the number of draws made from the generator seeded with 42.
EpsilonGreedy_new(num_arms, epsilon) ==
    [kind |-> "epsilon_greedy", epsilon |-> epsilon, counts |-> Zeros(num_arms),
     values |-> RZeros(num_arms), rng |-> 0]

\* The scan of argmax from index i on, with the best index and value so far
\* (max_index -1 with no value stands for the initial NEG_INFINITY).
RECURSIVE ArgmaxScan(_, _, _, _, _)
ArgmaxScan(values, i, max_index, has_max, max_value) ==
    IF i > Len(values) THEN max_index
    ELSE IF (~has_max) \/ RGt(values[i], max_value)
         THEN ArgmaxScan(values, i + 1, i - 1, TRUE, values[i])
         ELSE ArgmaxScan(values, i + 1, max_index, has_max, max_value)

\* A slip: the scan with >= for >, which keeps the last maximum.
RECURSIVE ArgmaxScanGe(_, _, _, _, _)
ArgmaxScanGe(values, i, max_index, has_max, max_value) ==
    IF i > Len(values) THEN max_index
    ELSE IF (~has_max) \/ RGe(values[i], max_value)
         THEN ArgmaxScanGe(values, i + 1, i - 1, TRUE, values[i])
         ELSE ArgmaxScanGe(values, i + 1, max_index, has_max, max_value)

EpsilonGreedy_argmaxLast(b) == ArgmaxScanGe(b.values, 1, 0, FALSE, RZero)

EpsilonGreedy_argmax(b) == ArgmaxScan(b.values, 1, 0, FALSE, RZero)

\* The number of distinct words a draw of the generator can give.
RngWords == MaxArms

\* rng.gen::<f64>(): a draw, as a number in [0, 1).
GenF64(word) == Rat(word, RngWords)
\* A slip: a draw scaled into 0..n, the end of the range included.
GenRangeInclusive(word, n) == (word * (n + 1)) \div RngWords
\* rng.gen_range(0..n): a draw, scaled into 0..n-1.
GenRange(word, n) == (word * n) \div RngWords

\* A select_arm that draws only when it explores.
EpsilonGreedy_select_armLazy(b, word1, word2) ==
    IF RLt(GenF64(word1), b.epsilon)
    THEN <<GenRange(word2, Len(b.values)), [b EXCEPT !.rng = @ + 2]>>
    ELSE <<EpsilonGreedy_argmax(b), b>>

\* select_arm with the generator's next two draws: <<arm, the strategy after>>.
EpsilonGreedy_select_arm(b, word1, word2) ==
    IF RLt(GenF64(word1), b.epsilon)
    THEN <<GenRange(word2, Len(b.values)), [b EXCEPT !.rng = @ + 2]>>
    ELSE <<EpsilonGreedy_argmax(b), [b EXCEPT !.rng = @ + 1]>>

EpsilonGreedy_update(b, chosen_arm, reward) ==
    LET n == b.counts[chosen_arm + 1] + 1
        value == b.values[chosen_arm + 1]
        new_value == IncrementalMean(value, reward, n)
    IN  [b EXCEPT !.counts[chosen_arm + 1] = n, !.values[chosen_arm + 1] = new_value]

\* --------------------------------------------------------------------- Ucb1
\* A constructor with optimistic initial values: every arm starts at 1.0.
Ucb1_newOptimistic(num_arms, c) ==
    [kind |-> "ucb1", c |-> c, counts |-> Zeros(num_arms),
     values |-> [i \in 1..num_arms |-> RInt(1)]]

Ucb1_new(num_arms, c) ==
    [kind |-> "ucb1", c |-> c, counts |-> Zeros(num_arms), values |-> RZeros(num_arms)]

RECURSIVE SumSeq(_)
SumSeq(s) == IF s = <<>> THEN 0 ELSE s[1] + SumSeq(Tail(s))

\* A slip: the last index of a zero count.
LastZero(counts) ==
    IF \E i \in 1..Len(counts) : counts[i] = 0
    THEN (CHOOSE i \in 1..Len(counts) :
            counts[i] = 0 /\ \A j \in (i + 1)..Len(counts) : counts[j] # 0) - 1
    ELSE -1

\* The first index (from 0) of a zero count, or -1.
FirstZero(counts) ==
    IF \E i \in 1..Len(counts) : counts[i] = 0
    THEN (CHOOSE i \in 1..Len(counts) :
            counts[i] = 0 /\ \A j \in 1..(i - 1) : counts[j] # 0) - 1
    ELSE -1

\* Scores are computed in fixed point, in units of 1/Scale.
Scale == 100 * 100
\* round(Scale * ln t) for t = 1..16.
LnScaled == <<0, 6931, 10986, 13863, 16094, 17918, 19459, 20794, 21972, 23026,
              23979, 24849, 25649, 26391, 27081, 27726>>

RECURSIVE IsqrtBetween(_, _, _)
IsqrtBetween(x, lo, hi) ==
    IF lo >= hi THEN lo
    ELSE LET mid == (lo + hi + 1) \div 2
         IN  IF mid * mid <= x THEN IsqrtBetween(x, mid, hi)
             ELSE IsqrtBetween(x, lo, mid - 1)
\* The integer square root.
Isqrt(x) == IsqrtBetween(x, 0, 40000)

Fixed(r) == (r[1] * Scale) \div r[2]

\* mean + c * sqrt(2 ln t / n) of arm i, in units of 1/Scale.
Ucb1_score(b, total, i) ==
    LET n == b.counts[i]
        bonus == (b.c[1] * Isqrt(((2 * LnScaled[total]) \div n) * Scale)) \div b.c[2]
    IN  Fixed(b.values[i]) + bonus

\* The score loop with >= for >: among equal scores the last one wins.
RECURSIVE ScoreScanGe(_, _, _, _, _, _)
ScoreScanGe(b, total, i, best_arm, has_best, best_score) ==
    IF i > Len(b.values) THEN best_arm
    ELSE LET score == Ucb1_score(b, total, i)
         IN  IF (~has_best) \/ score >= best_score
             THEN ScoreScanGe(b, total, i + 1, i - 1, TRUE, score)
             ELSE ScoreScanGe(b, total, i + 1, best_arm, has_best, best_score)

RECURSIVE ScoreScan(_, _, _, _, _, _)
ScoreScan(b, total, i, best_arm, has_best, best_score) ==
    IF i > Len(b.values) THEN best_arm
    ELSE LET score == Ucb1_score(b, total, i)
         IN  IF (~has_best) \/ score > best_score
             THEN ScoreScan(b, total, i + 1, i - 1, TRUE, score)
             ELSE ScoreScan(b, total, i + 1, best_arm, has_best, best_score)

\* select_arm: [arm, scored], scored telling whether the score loop ran.
Ucb1_select_arm(b) ==
    LET total == SumSeq(b.counts)
        idx == FirstZero(b.counts)
    IN  IF idx # -1
        THEN [arm |-> idx, scored |-> FALSE]
        ELSE [arm |-> ScoreScan(b, total, 1, 0, FALSE, 0), scored |-> TRUE]

Ucb1_update(b, chosen_arm, reward) ==
    LET n == b.counts[chosen_arm + 1] + 1
        old_value == b.values[chosen_arm + 1]
        new_value == IncrementalMean(old_value, reward, n)
    IN  [b EXCEPT !.counts[chosen_arm + 1] = n, !.values[chosen_arm + 1] = new_value]

\* ------------------------------------------------- RewardTracker statistics
\* A slip: the sum divided by the capacity instead of the number kept.
RewardTracker_meanOverWindow(t) ==
    IF t.values = <<>> THEN RZero ELSE RDivInt(RSum(t.values), t.window)

\* mean without its test for an empty buffer: 0.0 / 0 is not a number.
RewardTracker_meanUnguarded(t) ==
    IF t.values = <<>> THEN NaN ELSE RDivInt(RSum(t.values), Len(t.values))

RewardTracker_mean(t) ==
    IF t.values = <<>> THEN RZero ELSE RDivInt(RSum(t.values), Len(t.values))

\* An accumulator of the folds below is [finite, v]; finite is FALSE while
\* it is still the infinity the fold starts from.
\* A fold step that keeps the first number it met.
AccFirst(a, b) == IF ~a.finite THEN b ELSE a
\* f64::min and f64::max on two accumulators.
AccMin(a, b) == IF ~a.finite THEN b ELSE IF ~b.finite THEN a ELSE IF RLt(b.v, a.v) THEN b ELSE a
AccMax(a, b) == IF ~a.finite THEN b ELSE IF ~b.finite THEN a ELSE IF RGt(b.v, a.v) THEN b ELSE a

\* fold(f64::INFINITY, f64::min) from the accumulator acc, by halves: the
\* minimum of exact numbers does not depend on the grouping.
RECURSIVE FoldMin(_, _)
FoldMin(values, acc) ==
    IF values = <<>> THEN acc
    ELSE IF Len(values) = 1 THEN AccMin(acc, [finite |-> TRUE, v |-> values[1]])
    ELSE LET h == Len(values) \div 2
         IN  AccMin(FoldMin(SubSeq(values, 1, h), acc),
                    FoldMin(SubSeq(values, h + 1, Len(values)), acc))

\* fold(f64::NEG_INFINITY, f64::max), likewise.
RECURSIVE FoldMax(_, _)
FoldMax(values, acc) ==
    IF values = <<>> THEN acc
    ELSE IF Len(values) = 1 THEN AccMax(acc, [finite |-> TRUE, v |-> values[1]])
    ELSE LET h == Len(values) \div 2
         IN  AccMax(FoldMax(SubSeq(values, 1, h), acc),
                    FoldMax(SubSeq(values, h + 1, Len(values)), acc))

Infinity == [finite |-> FALSE, v |-> RZero]

\* .is_finite().then(..).unwrap_or(0.0)
FiniteOrZero(acc) == IF acc.finite THEN acc.v ELSE RZero

RewardTracker_min(t) == FiniteOrZero(FoldMin(t.values, Infinity))
RewardTracker_max(t) == FiniteOrZero(FoldMax(t.values, Infinity))
RewardTracker_count(t) == Len(t.values)

\* ----------------------------------------------------------------- Registry
\* The tasks that run handlers.
Tasks == {1, 2}
NoTask == 0
\* An id create never generates ("does-not-exist").
UnknownId == 0
\* The window of the tracker attached to an epsilon-greedy entry.
TrackerWindow == 50

\* The values of CreateReq.param.
RegParams == {<<-1, 1>>, <<0, 1>>, <<1, 2>>, <<1, 1>>, <<2, 1>>}
Strategies == {"epsilon_greedy", "ucb1", "thompson"}

NoReq == [op |-> "none"]
NoResp == [status |-> "none"]
BadRequest == [status |-> "bad_request"]
NotFound == [status |-> "not_found"]
Panic == [status |-> "panic"]

\* A slip: a lock that never makes a caller wait.
LockAlwaysFree(holder) == TRUE

\* A slip: a guard whose drop leaves the mutex locked.
GuardLeak(holder) == holder

\* Mutex::lock returns once no task holds the mutex.
LockFree(holder) == holder = NoTask
\* Dropping the guard unlocks the mutex.
GuardDrop(holder) == NoTask

\* HashMap::get / get_mut(&id) finds an entry.
Found(m, id) == id \in DOMAIN m

\* The checks of create_bandit that return BAD_REQUEST.
UnsupportedStrategy(r) == ~(r.strategy = "epsilon_greedy" \/ r.strategy = "ucb1")
InvalidArms(r) == r.num_arms = 0
\* A slip: only the lower end of the range is checked.
InvalidEpsilonLow(r) == RLt(r.param, RZero)
InvalidEpsilon(r) == ~(RGe(r.param, RZero) /\ RGe(RInt(1), r.param))
\* A create_bandit that lets every exploration factor through.
InvalidFactorNever(r) == FALSE
InvalidFactor(r) == RLt(r.param, RZero)

CreateRejects(r) ==
    \/ UnsupportedStrategy(r)
    \/ InvalidArms(r)
    \/ r.strategy = "epsilon_greedy" /\ InvalidEpsilon(r)
    \/ r.strategy = "ucb1" /\ InvalidFactor(r)

\* The assertions at the top of the three constructors create_bandit calls.
EpsilonGreedy_asserts(num_arms, epsilon) ==
    num_arms > 0 /\ RGe(epsilon, RZero) /\ RGe(RInt(1), epsilon)
Ucb1_asserts(num_arms, c) == num_arms > 0 /\ RGe(c, RZero)
RewardTracker_asserts(window) == window > 0

\* Whether the constructors called for a request that passed the checks of
\* create_bandit return, rather than panic on an assertion.
Constructs(r) ==
    IF r.strategy = "epsilon_greedy"
    THEN EpsilonGreedy_asserts(r.num_arms, r.param)
             /\ RewardTracker_asserts(TrackerWindow)
    ELSE Ucb1_asserts(r.num_arms, r.param)

\* The Strategy create_bandit builds for a request it accepts.
BuildStrategy(r) ==
    IF r.strategy = "epsilon_greedy"
    THEN [tag |-> "EpsilonGreedy",
          bandit |-> EpsilonGreedy_new(r.num_arms, r.param),
          tracker |-> RewardTracker_new(TrackerWindow)]
    ELSE [tag |-> "Ucb1", bandit |-> Ucb1_new(r.num_arms, r.param)]

\* The draws of a generator seeded from the system's entropy: any, whatever
\* another instance drew at that position.
NextWordsFresh(i) == 0..(RngWords - 1)

\* The draws position i of the seeded generator can give: the recorded one,
\* or any when no instance has drawn that far yet.
NextWords(i) == IF i <= Len(stream) THEN {stream[i]} ELSE 0..(RngWords - 1)

\* The recorded draws after an instance at position k has drawn words.
Drawn(s, k, words) ==
    IF Len(s) >= k + Len(words) THEN s ELSE SubSeq(s, 1, k) \o words

\* StatsResp of get_stats for either kind of entry.
TrackerStats(t) ==
    [mean |-> RewardTracker_mean(t), min |-> RewardTracker_min(t),
     max |-> RewardTracker_max(t), count |-> RewardTracker_count(t)]

\* A slip: the mean taken over the arms that were pulled.
Ucb1StatsPulled(b) ==
    LET pulled == Cardinality({i \in 1..Len(b.counts) : b.counts[i] > 0})
    IN  [mean |-> IF pulled = 0 THEN RZero ELSE RDivInt(RSum(b.values), pulled),
         min |-> FoldMin(b.values, Infinity).v,
         max |-> FoldMax(b.values, Infinity).v,
         count |-> SumSeq(b.counts)]

\* (values is never empty: the folds end on one of its elements)
Ucb1Stats(b) ==
    [mean |-> RDivInt(RSum(b.values), Len(b.values)),
     min |-> FoldMin(b.values, Infinity).v,
     max |-> FoldMax(b.values, Infinity).v,
     count |-> SumSeq(b.counts)]

\* ------------------------------------------------------------ HillClimber1D
\* The two assertions of with_params.
HillClimber1D_accepts(step, min_step, grow, shrink) ==
    /\ RGt(step, RZero) /\ RGt(min_step, RZero)
    /\ RGt(grow, RInt(1)) /\ RGe(shrink, RZero) /\ RLt(shrink, RInt(1))

HillClimber1D_with_params(x0, step, min_step, grow, shrink) ==
    [x |-> x0, dir |-> RInt(1), step |-> step, min_step |-> min_step,
     grow |-> grow, shrink |-> shrink,
     last_reward |-> None, last_suggested |-> None]

HillClimber1D_new(x0) ==
    HillClimber1D_with_params(x0, <<1, 2>>, <<1, 10>>, <<11, 10>>, <<1, 2>>)

\* suggest with the first-call test dropped: it always steps.
HillClimber1D_suggestedStep(h) == RAdd(h.x, RMul(h.dir, h.step))

\* The value suggest computes and returns.
HillClimber1D_suggested(h) ==
    IF h.last_suggested = None THEN h.x
    ELSE RAdd(h.x, RMul(h.dir, h.step))

\* suggest moving x to what it returns, without waiting for the reward.
HillClimber1D_suggestAdopting(h) ==
    [h EXCEPT !.last_suggested = Some(HillClimber1D_suggested(h)),
              !.x = HillClimber1D_suggested(h)]

HillClimber1D_suggest(h) ==
    [h EXCEPT !.last_suggested = Some(HillClimber1D_suggested(h))]

\* The first observe with its step grown as after an improvement.
HillClimber1D_firstGrown(h, reward) ==
    [h EXCEPT !.x = h.last_suggested[1], !.step = RMul(h.step, h.grow),
              !.last_reward = Some(reward)]

\* observe, no reward seen yet: the suggestion is adopted.
HillClimber1D_first(h, reward) ==
    [h EXCEPT !.x = h.last_suggested[1], !.last_reward = Some(reward)]

\* The improvement branch keeping the previous reward.
HillClimber1D_improvedUnrecorded(h, reward) ==
    [h EXCEPT !.x = h.last_suggested[1], !.step = RMul(h.step, h.grow)]

\* observe, the reward is no worse than the previous one.
HillClimber1D_improved(h, reward) ==
    [h EXCEPT !.x = h.last_suggested[1], !.step = RMul(h.step, h.grow),
              !.last_reward = Some(reward)]

\* The regression branch without the floor of min_step.
HillClimber1D_regressedUnfloored(h) ==
    [h EXCEPT !.dir = RNeg(h.dir), !.step = RMul(h.step, h.shrink)]

\* observe, the reward is worse than the previous one.
HillClimber1D_regressed(h) ==
    [h EXCEPT !.dir = RNeg(h.dir),
              !.step = RMax(RMul(h.step, h.shrink), h.min_step)]

HillClimber1D_observe(h, reward) ==
    IF h.last_suggested = None THEN h
    ELSE IF h.last_reward = None THEN HillClimber1D_first(h, reward)
    ELSE IF F64Ge(reward, h.last_reward[1])
         THEN HillClimber1D_improved(h, reward)
         ELSE HillClimber1D_regressed(h)

HillClimber1D_param(h) == h.x

\* reset keeping the step as it is, below min_step or not.
HillClimber1D_resetUnfloored(h, x0) ==
    [h EXCEPT !.x = x0, !.dir = RInt(1),
              !.last_reward = None, !.last_suggested = None]

HillClimber1D_reset(h, x0) ==
    [h EXCEPT !.x = x0, !.dir = RInt(1), !.step = RMax(h.step, h.min_step),
              !.last_reward = None, !.last_suggested = None]

\* The same climber on binary64 numbers, as the convergence test runs it:
\* every sum and product is rounded to the nearest binary64.
HillClimber1D_with_params64(x0, step, min_step, grow, shrink) ==
    [x |-> x0, dir |-> F64OfInt(1), step |-> step, min_step |-> min_step,
     grow |-> grow, shrink |-> shrink,
     last_reward |-> None, last_suggested |-> None]

HillClimber1D_suggested64(h) ==
    IF h.last_suggested = None THEN h.x
    ELSE F64Add(h.x, F64Mul(h.dir, h.step))

HillClimber1D_suggest64(h) ==
    [h EXCEPT !.last_suggested = Some(HillClimber1D_suggested64(h))]

F64Max(a, b) == IF F64Lt(a, b) THEN b ELSE a

\* observe taking every reward for an improvement.
HillClimber1D_observe64Greedy(h, reward) ==
    IF h.last_suggested = None THEN h
    ELSE IF h.last_reward = None
         THEN [h EXCEPT !.x = h.last_suggested[1], !.last_reward = Some(reward)]
    ELSE [h EXCEPT !.x = h.last_suggested[1], !.step = F64Mul(h.step, h.grow),
                   !.last_reward = Some(reward)]

\* (the rewards of the test are numbers: >= is "not less than")
HillClimber1D_observe64(h, reward) ==
    IF h.last_suggested = None THEN h
    ELSE IF h.last_reward = None
         THEN [h EXCEPT !.x = h.last_suggested[1], !.last_reward = Some(reward)]
    ELSE IF ~F64Lt(reward, h.last_reward[1])
         THEN [h EXCEPT !.x = h.last_suggested[1],
                        !.step = F64Mul(h.step, h.grow),
                        !.last_reward = Some(reward)]
         ELSE [h EXCEPT !.dir = F64Neg(h.dir),
                        !.step = F64Max(F64Mul(h.step, h.shrink), h.min_step)]

\* The reward surface of the test: -(x - 3)^2 + 10, greatest at x = 3.
reward_fn(x) ==
    LET d == F64Sub(x, F64OfInt(3))
    IN  F64Add(F64Neg(F64Mul(d, d)), F64OfInt(10))

\* ------------------------------------------------------------ idle parts
RegistryIdle ==
    /\ map = <<>>
    /\ lock = NoTask
    /\ poisoned = FALSE
    /\ stream = <<>>
    /\ pc = [t \in Tasks |-> "idle"]
    /\ req = [t \in Tasks |-> NoReq]
    /\ resp = [t \in Tasks |-> NoResp]
    /\ issued = 0
    /\ returned = {}
    /\ log = <<>>
    /\ ops = 0

BanditIdle ==
    /\ bandit = Ucb1_new(1, RZero)
    /\ calls = Zeros(1)
    /\ sums = Zeros(1)
    /\ lastArm = -1
    /\ scored = FALSE
    /\ sinceUpdate = 0
    /\ pairs = 0
    /\ panicked = FALSE

ClimberIdle ==
    /\ hc = HillClimber1D_new(RZero)
    /\ hcHist = <<>>
    /\ hcOps = 0

WindowIdle ==
    /\ rt = RewardTracker_new(1)
    /\ rn = RewardNormalizer_new(1)
    /\ rtFed = <<>>
    /\ rnFed = <<>>

\* --------------------------------------------------- the stand-alone window
InitWindow ==
    /\ ClimberIdle
    /\ \E w \in 1..MaxWindow : rt = RewardTracker_new(w)
    /\ \E w \in 1..MaxWindow : rn = RewardNormalizer_new(w)
    /\ rtFed = <<>>
    /\ rnFed = <<>>
    /\ BanditIdle
    /\ RegistryIdle

TrackerUpdate ==
    /\ Len(rtFed) + Len(rnFed) < MaxFeed
    /\ \E r \in Rewards :
        /\ rt' = RewardTracker_update(rt, RInt(r))
        /\ rtFed' = Append(rtFed, RInt(r))
    /\ UNCHANGED <<rn, rnFed, banditVars, registryVars, climberVars>>

NormalizerUpdate ==
    /\ Len(rtFed) + Len(rnFed) < MaxFeed
    /\ \E r \in NormRewards :
        /\ rn' = RewardNormalizer_update(rn, F64Of(r[1], r[2]))
        /\ rnFed' = Append(rnFed, F64Of(r[1], r[2]))
    /\ UNCHANGED <<rt, rtFed, banditVars, registryVars, climberVars>>

NextWindow == TrackerUpdate \/ NormalizerUpdate

SpecWindow == InitWindow /\ [][NextWindow]_vars

\* C1: after n updates the buffer of a tracker or normalizer of window w is
\* exactly the last min(n, w) values supplied, oldest first, and never longer
\* than w (so an update on a full buffer drops exactly the oldest value).
C1_WindowIsLastValues ==
    /\ rt.values = LastN(rtFed, Min2(Len(rtFed), rt.window))
    /\ Len(rt.values) <= rt.window
    /\ rn.values = LastN(rnFed, Min2(Len(rnFed), rn.window))
    /\ Len(rn.values) <= rn.window

\* A full tracker of window 2 and a full normalizer that have both evicted a
\* value, the tracker one that differs from those it kept.
C1_Witness ==
    /\ rt.window = 2 /\ Len(rtFed) = 3 /\ Len(rt.values) = 2
    /\ rtFed[1] # rtFed[2] /\ rtFed[2] # rtFed[3] /\ rtFed[1] # rtFed[3]
    /\ Len(rnFed) > rn.window /\ Len(rn.values) = rn.window

InitBandit ==
    /\ ClimberIdle
    /\ WindowIdle
    /\ RegistryIdle
    /\ \E n \in 1..MaxArms :
        /\ \/ \E e \in Epsilons : bandit = EpsilonGreedy_new(n, e)
           \/ \E c \in Cs : bandit = Ucb1_new(n, c)
        /\ calls = Zeros(n)
        /\ sums = Zeros(n)
    /\ lastArm = -1
    /\ scored = FALSE
    /\ sinceUpdate = 0
    /\ pairs = 0
    /\ panicked = FALSE

NumArms == Len(bandit.counts)

EpsSelect ==
    /\ ~panicked
    /\ bandit.kind = "epsilon_greedy"
    /\ bandit.rng + 2 <= 2 * MaxSelects
    /\ \E word1 \in 0..(RngWords - 1) :
        \E word2 \in IF RLt(GenF64(word1), bandit.epsilon) THEN 0..(RngWords - 1) ELSE {0} :
            LET res == EpsilonGreedy_select_arm(bandit, word1, word2)
            IN  /\ lastArm' = res[1]
                /\ bandit' = res[2]
    /\ sinceUpdate' = Min2(sinceUpdate + 1, 2)
    /\ UNCHANGED <<calls, sums, scored, pairs, panicked, windowVars, registryVars, climberVars>>

UcbSelect ==
    /\ ~panicked
    /\ bandit.kind = "ucb1"
    /\ LET res == Ucb1_select_arm(bandit)
       IN  /\ lastArm' = res.arm
           /\ scored' = res.scored
    /\ sinceUpdate' = Min2(sinceUpdate + 1, 2)
    /\ UNCHANGED <<bandit, calls, sums, pairs, panicked, windowVars, registryVars, climberVars>>

\* update(chosen_arm, reward) with an arm that indexes the arrays.
BanditUpdate ==
    /\ ~panicked
    /\ SumSeq(calls) < MaxPulls
    /\ \E chosen_arm \in 0..(NumArms - 1), r \in Rewards :
        /\ IndexInRange(bandit, chosen_arm)
        /\ bandit' = IF bandit.kind = "epsilon_greedy"
                     THEN EpsilonGreedy_update(bandit, chosen_arm, RInt(r))
                     ELSE Ucb1_update(bandit, chosen_arm, RInt(r))
        /\ calls' = [calls EXCEPT ![chosen_arm + 1] = @ + 1]
        /\ sums' = [sums EXCEPT ![chosen_arm + 1] = @ + r]
        /\ pairs' = IF pairs >= 0 /\ sinceUpdate > 0 /\ chosen_arm = lastArm
                    THEN Min2(pairs + 1, NumArms) ELSE -1
    /\ sinceUpdate' = 0
    /\ UNCHANGED <<lastArm, scored, panicked, windowVars, registryVars, climberVars>>

\* update(chosen_arm, reward) with chosen_arm = num_arms: the index panics
\* before anything is written.
BanditUpdatePanic ==
    /\ ~panicked
    /\ ~IndexInRange(bandit, NumArms)
    /\ panicked' = TRUE
    /\ UNCHANGED <<bandit, calls, sums, lastArm, scored, sinceUpdate, pairs, windowVars, registryVars, climberVars>>

NextBandit == EpsSelect \/ UcbSelect \/ BanditUpdate \/ BanditUpdatePanic

SpecBandit == InitBandit /\ [][NextBandit]_vars

\* C2: for every arm, counts is the number of update calls made with that arm
\* and values is the arithmetic mean of the rewards of exactly those calls
\* (0 when there was none), for both strategies.
C2_CountsAndMeans ==
    \A i \in 1..NumArms :
        /\ bandit.counts[i] = calls[i]
        /\ bandit.values[i] = IF calls[i] = 0 THEN RZero ELSE Rat(sums[i], calls[i])

\* Two arms updated, one of them twice with different rewards, a third never.
C2_Witness ==
    /\ NumArms = 3
    /\ calls[1] = 2 /\ bandit.values[1] = <<1, 2>>
    /\ calls[2] = 1 /\ bandit.values[2] = <<3, 1>>
    /\ calls[3] = 0

LowestZero(counts, a) ==
    /\ counts[a + 1] = 0
    /\ \A j \in 1..a : counts[j] # 0

\* C3: Ucb1.select_arm returns the lowest-index arm whose count is 0 when
\* there is one; on a fresh Ucb1 the first n select_arm/update(selected arm)
\* rounds take arms 0, 1, ..., n-1 in order; the score loop runs only when
\* every count is at least 1.
C3_ColdStart ==
    (bandit.kind = "ucb1" /\ sinceUpdate > 0) =>
        /\ (\E i \in 1..NumArms : bandit.counts[i] = 0) =>
                LowestZero(bandit.counts, lastArm)
        /\ (pairs >= 0 /\ pairs < NumArms) => lastArm = pairs
        /\ scored => \A i \in 1..NumArms : bandit.counts[i] >= 1

\* The third round of a fresh three-armed Ucb1 has selected arm 2.
C3_Witness ==
    /\ bandit.kind = "ucb1" /\ NumArms = 3
    /\ sinceUpdate > 0 /\ pairs = 2 /\ lastArm = 2

\* a is the lowest index at which values takes its maximum.
LowestArgmax(values, a) ==
    /\ a + 1 \in 1..Len(values)
    /\ \A j \in 1..Len(values) : RGe(values[a + 1], values[j])
    /\ \A j \in 1..a : RLt(values[j], values[a + 1])

\* C4: with epsilon = 0.0, every select_arm returns the lowest index of the
\* maximum of values, also when it is called again without an update between.
C4_ExploitLowestArgmax ==
    (bandit.kind = "epsilon_greedy" /\ bandit.epsilon = RZero /\ sinceUpdate > 0) =>
        LowestArgmax(bandit.values, lastArm)

\* A second select_arm in a row, on values whose maximum is at arm 1 and tied
\* with arm 2.
C4_Witness ==
    /\ bandit.kind = "epsilon_greedy" /\ bandit.epsilon = RZero
    /\ NumArms = 3 /\ sinceUpdate = 2 /\ lastArm = 1
    /\ bandit.values[2] = bandit.values[3] /\ RLt(bandit.values[1], bandit.values[2])
\* ------------------------------------------------------------ the registry
\* Registry::default(): an empty map behind a fresh mutex.
Init ==
    /\ ClimberIdle
    /\ WindowIdle
    /\ BanditIdle
    /\ RegistryIdle

\* The create requests of a set of strategies, parameters and arm counts.
CreateReqs(strategies, params, arms) ==
    [op : {"create"}, strategy : strategies, param : params, num_arms : arms]

\* The select, update and stats requests on the ids of a set.
CallReqs(ids, arms, rewards) ==
    [op : {"select", "stats"}, id : ids]
        \cup [op : {"update"}, id : ids, arm : arms, reward : rewards]

\* A request goes to the first task that is free.
FirstIdle(t) == pc[t] = "idle" /\ \A u \in Tasks : u < t => pc[u] # "idle"

\* Whether a request can change the registry.
Changes(r) ==
    \/ r.op = "create" /\ ~CreateRejects(r)
    \/ r.op = "update" /\ Found(map, r.id)
    \/ r.op = "select" /\ Found(map, r.id) /\ map[r.id].tag = "EpsilonGreedy"

\* create_bandit up to the statement that takes the lock: the request is
\* rejected, or the id is generated and the strategy built; a constructor
\* whose assertion fails panics, the lock not yet taken.
CreateStart(t, r) ==
    /\ FirstIdle(t)
    /\ ops' = IF Changes(r) THEN ops + 1 ELSE ops
    /\ IF CreateRejects(r)
       THEN /\ pc' = [pc EXCEPT ![t] = "ret"]
            /\ req' = [req EXCEPT ![t] = [op |-> "create"]]
            /\ resp' = [resp EXCEPT ![t] = BadRequest]
            /\ UNCHANGED issued
       ELSE IF ~Constructs(r)
       THEN /\ pc' = [pc EXCEPT ![t] = "unwind"]
            /\ req' = [req EXCEPT ![t] = [op |-> "create"]]
            /\ resp' = [resp EXCEPT ![t] = Panic]
            /\ issued' = issued + 1
       ELSE /\ pc' = [pc EXCEPT ![t] = "lock"]
            /\ req' = [req EXCEPT ![t] =
                         [op |-> "create", id |-> issued + 1, num_arms |-> r.num_arms,
                          built |-> BuildStrategy(r)]]
            /\ issued' = issued + 1
            /\ UNCHANGED resp
    /\ UNCHANGED <<map, lock, poisoned, stream, returned, log, windowVars, banditVars, climberVars>>

\* A select_arm, update_reward or get_stats call arrives.
CallStart(t, r) ==
    /\ FirstIdle(t)
    /\ ops' = IF Changes(r) THEN ops + 1 ELSE ops
    /\ pc' = [pc EXCEPT ![t] = "lock"]
    /\ req' = [req EXCEPT ![t] = r]
    /\ UNCHANGED <<map, lock, poisoned, stream, resp, issued, returned, log,
                   windowVars, banditVars, climberVars>>

\* reg.map.lock(): waits until no task holds the mutex, then holds it.  No
\* other task can act on the map between this and the handler's body, so
\* each handler takes the lock and runs its body in one step.
Locks(t) ==
    /\ pc[t] = "lock"
    /\ LockFree(lock)
    /\ lock' = t

\* .unwrap() on a poisoned mutex: lock() has taken the mutex and returns the
\* guard inside an error; unwrap() panics with it.
LockPoisoned(t) ==
    /\ Locks(t)
    /\ poisoned
    /\ pc' = [pc EXCEPT ![t] = "unwind"]
    /\ resp' = [resp EXCEPT ![t] = Panic]
    /\ UNCHANGED <<map, poisoned, stream, req, issued, returned, log, ops,
                   windowVars, banditVars, climberVars>>

\* An insert that leaves the new entry alone in the map.
InsertBodyAlone(t) ==
    /\ Locks(t)
    /\ ~poisoned
    /\ req[t].op = "create"
    /\ map' = (req[t].id :> req[t].built)
    /\ log' = (req[t].id :> [num_arms |-> req[t].num_arms, rewards |-> <<>>,
                           calls |-> <<>>]) @@ log
    /\ resp' = [resp EXCEPT ![t] = [status |-> "ok", id |-> req[t].id]]
    /\ pc' = [pc EXCEPT ![t] = "ret"]
    /\ UNCHANGED <<poisoned, stream, req, issued, returned, ops,
                   windowVars, banditVars, climberVars>>

\* reg.map.lock().unwrap().insert(id.clone(), strategy)
InsertBody(t) ==
    /\ Locks(t)
    /\ ~poisoned
    /\ req[t].op = "create"
    /\ map' = (req[t].id :> req[t].built) @@ map
    /\ log' = (req[t].id :> [num_arms |-> req[t].num_arms, rewards |-> <<>>,
                           calls |-> <<>>]) @@ log
    /\ resp' = [resp EXCEPT ![t] = [status |-> "ok", id |-> req[t].id]]
    /\ pc' = [pc EXCEPT ![t] = "ret"]
    /\ UNCHANGED <<poisoned, stream, req, issued, returned, ops,
                   windowVars, banditVars, climberVars>>

\* select_arm drawing from one generator that all epsilon-greedy entries
\* share: a draw for one entry moves every other entry's generator on.
SelectBodyShared(t) ==
    /\ Locks(t)
    /\ ~poisoned
    /\ req[t].op = "select"
    /\ pc' = [pc EXCEPT ![t] = "ret"]
    /\ LET id == req[t].id
       IN  IF ~Found(map, id)
           THEN /\ resp' = [resp EXCEPT ![t] = NotFound]
                /\ UNCHANGED <<map, stream, log>>
           ELSE IF map[id].tag = "EpsilonGreedy"
           THEN LET b == map[id].bandit
                IN  \E word1 \in NextWords(b.rng + 1) :
                      \E word2 \in IF RLt(GenF64(word1), b.epsilon)
                                   THEN NextWords(b.rng + 2) ELSE {0} :
                        LET res == EpsilonGreedy_select_arm(b, word1, word2)
                            words == IF res[2].rng = b.rng + 2
                                     THEN <<word1, word2>> ELSE <<word1>>
                        IN  /\ map' = [i \in DOMAIN map |->
                                         IF i = id THEN [map[i] EXCEPT !.bandit = res[2]]
                                         ELSE IF map[i].tag = "EpsilonGreedy"
                                         THEN [map[i] EXCEPT !.bandit.rng = @ + Len(words)]
                                         ELSE map[i]]
                            /\ stream' = Drawn(stream, b.rng, words)
                            /\ resp' = [resp EXCEPT ![t] = [status |-> "ok", arm |-> res[1]]]
                            /\ log' = [log EXCEPT ![id].calls =
                                          Append(@, <<"select", res[1]>>)]
           ELSE /\ resp' = [resp EXCEPT ![t] =
                              [status |-> "ok", arm |-> Ucb1_select_arm(map[id].bandit).arm]]
                /\ UNCHANGED <<map, stream, log>>
    /\ UNCHANGED <<poisoned, req, issued, returned, ops,
                   windowVars, banditVars, climberVars>>

\* select_arm: the lock, and the body under it.
SelectBody(t) ==
    /\ Locks(t)
    /\ ~poisoned
    /\ req[t].op = "select"
    /\ pc' = [pc EXCEPT ![t] = "ret"]
    /\ LET id == req[t].id
       IN  IF ~Found(map, id)
           THEN /\ resp' = [resp EXCEPT ![t] = NotFound]
                /\ UNCHANGED <<map, stream, log>>
           ELSE IF map[id].tag = "EpsilonGreedy"
           THEN LET b == map[id].bandit
                IN  \E word1 \in NextWords(b.rng + 1) :
                      \E word2 \in IF RLt(GenF64(word1), b.epsilon)
                                   THEN NextWords(b.rng + 2) ELSE {0} :
                        LET res == EpsilonGreedy_select_arm(b, word1, word2)
                            words == IF res[2].rng = b.rng + 2
                                     THEN <<word1, word2>> ELSE <<word1>>
                        IN  /\ map' = [map EXCEPT ![id].bandit = res[2]]
                            /\ stream' = Drawn(stream, b.rng, words)
                            /\ resp' = [resp EXCEPT ![t] = [status |-> "ok", arm |-> res[1]]]
                            /\ log' = [log EXCEPT ![id].calls =
                                          Append(@, <<"select", res[1]>>)]
           ELSE /\ resp' = [resp EXCEPT ![t] =
                              [status |-> "ok", arm |-> Ucb1_select_arm(map[id].bandit).arm]]
                /\ UNCHANGED <<map, stream, log>>
    /\ UNCHANGED <<poisoned, req, issued, returned, ops,
                   windowVars, banditVars, climberVars>>

\* update_reward with the tracker fed before the strategy is updated: an
\* arm that does not index the arrays panics after the tracker was written.
UpdateBodyTrackerFirst(t) ==
    /\ Locks(t)
    /\ ~poisoned
    /\ req[t].op = "update"
    /\ LET id == req[t].id
           reward == RInt(req[t].reward)
       IN  IF ~Found(map, id)
           THEN /\ resp' = [resp EXCEPT ![t] = NotFound]
                /\ pc' = [pc EXCEPT ![t] = "ret"]
                /\ UNCHANGED <<map, log>>
           ELSE IF ~IndexInRange(map[id].bandit, req[t].arm)
           THEN /\ resp' = [resp EXCEPT ![t] = Panic]
                /\ pc' = [pc EXCEPT ![t] = "unwind"]
                /\ map' = IF map[id].tag = "EpsilonGreedy"
                          THEN [map EXCEPT
                                  ![id].tracker = RewardTracker_update(@, reward)]
                          ELSE map
                /\ UNCHANGED log
           ELSE /\ map' = IF map[id].tag = "EpsilonGreedy"
                          THEN [map EXCEPT
                                  ![id].bandit = EpsilonGreedy_update(@, req[t].arm, reward),
                                  ![id].tracker = RewardTracker_update(@, reward)]
                          ELSE [map EXCEPT ![id].bandit = Ucb1_update(@, req[t].arm, reward)]
                /\ log' = [log EXCEPT
                            ![id].rewards = Append(@, reward),
                            ![id].calls =
                                IF map[id].tag = "EpsilonGreedy"
                                THEN Append(@, <<"update", req[t].arm, reward>>)
                                ELSE @]
                /\ resp' = [resp EXCEPT ![t] = [status |-> "ok"]]
                /\ pc' = [pc EXCEPT ![t] = "ret"]
    /\ UNCHANGED <<poisoned, stream, req, issued, returned, ops,
                   windowVars, banditVars, climberVars>>

\* update_reward applied to a copy of the entry as it was built, which is
\* then written back: what earlier updates wrote is lost.
UpdateBodyStale(t) ==
    /\ Locks(t)
    /\ ~poisoned
    /\ req[t].op = "update"
    /\ LET id == req[t].id
           reward == RInt(req[t].reward)
       IN  IF ~Found(map, id)
           THEN /\ resp' = [resp EXCEPT ![t] = NotFound]
                /\ pc' = [pc EXCEPT ![t] = "ret"]
                /\ UNCHANGED <<map, log>>
           ELSE IF ~IndexInRange(map[id].bandit, req[t].arm)
           THEN /\ resp' = [resp EXCEPT ![t] = Panic]
                /\ pc' = [pc EXCEPT ![t] = "unwind"]
                /\ UNCHANGED <<map, log>>
           ELSE /\ map' = IF map[id].tag = "EpsilonGreedy"
                          THEN [map EXCEPT
                                  ![id].bandit =
                                      EpsilonGreedy_update(
                                          [@ EXCEPT !.counts = Zeros(Len(@)),
                                                    !.values = RZeros(Len(@))],
                                          req[t].arm, reward),
                                  ![id].tracker =
                                      RewardTracker_update(
                                          RewardTracker_new(TrackerWindow), reward)]
                          ELSE [map EXCEPT
                                  ![id].bandit =
                                      Ucb1_update(
                                          [@ EXCEPT !.counts = Zeros(Len(@)),
                                                    !.values = RZeros(Len(@))],
                                          req[t].arm, reward)]
                /\ log' = [log EXCEPT
                            ![id].rewards = Append(@, reward),
                            ![id].calls =
                                IF map[id].tag = "EpsilonGreedy"
                                THEN Append(@, <<"update", req[t].arm, reward>>)
                                ELSE @]
                /\ resp' = [resp EXCEPT ![t] = [status |-> "ok"]]
                /\ pc' = [pc EXCEPT ![t] = "ret"]
    /\ UNCHANGED <<poisoned, stream, req, issued, returned, ops,
                   windowVars, banditVars, climberVars>>

\* update_reward: the lock, and the body under it.  An arm that does not index
\* the strategy's arrays panics before anything is written.
UpdateBody(t) ==
    /\ Locks(t)
    /\ ~poisoned
    /\ req[t].op = "update"
    /\ LET id == req[t].id
           reward == RInt(req[t].reward)
       IN  IF ~Found(map, id)
           THEN /\ resp' = [resp EXCEPT ![t] = NotFound]
                /\ pc' = [pc EXCEPT ![t] = "ret"]
                /\ UNCHANGED <<map, log>>
           ELSE IF ~IndexInRange(map[id].bandit, req[t].arm)
           THEN /\ resp' = [resp EXCEPT ![t] = Panic]
                /\ pc' = [pc EXCEPT ![t] = "unwind"]
                /\ UNCHANGED <<map, log>>
           ELSE /\ map' = IF map[id].tag = "EpsilonGreedy"
                          THEN [map EXCEPT
                                  ![id].bandit = EpsilonGreedy_update(@, req[t].arm, reward),
                                  ![id].tracker = RewardTracker_update(@, reward)]
                          ELSE [map EXCEPT ![id].bandit = Ucb1_update(@, req[t].arm, reward)]
                /\ log' = [log EXCEPT
                            ![id].rewards = Append(@, reward),
                            ![id].calls =
                                IF map[id].tag = "EpsilonGreedy"
                                THEN Append(@, <<"update", req[t].arm, reward>>)
                                ELSE @]
                /\ resp' = [resp EXCEPT ![t] = [status |-> "ok"]]
                /\ pc' = [pc EXCEPT ![t] = "ret"]
    /\ UNCHANGED <<poisoned, stream, req, issued, returned, ops,
                   windowVars, banditVars, climberVars>>

\* get_stats: the lock, and the body under it.
StatsBody(t) ==
    /\ Locks(t)
    /\ ~poisoned
    /\ req[t].op = "stats"
    /\ pc' = [pc EXCEPT ![t] = "ret"]
    /\ LET id == req[t].id
       IN  resp' = [resp EXCEPT ![t] =
                      IF ~Found(map, id) THEN NotFound
                      ELSE IF map[id].tag = "EpsilonGreedy"
                      THEN [status |-> "ok", stats |-> TrackerStats(map[id].tracker)]
                      ELSE [status |-> "ok", stats |-> Ucb1Stats(map[id].bandit)]]
    /\ UNCHANGED <<map, poisoned, stream, req, issued, returned, log, ops,
                   windowVars, banditVars, climberVars>>

\* A guard whose drop releases the mutex and never poisons it.
ReturnUnpoisoned(t) ==
    /\ pc[t] \in {"ret", "unwind"}
    /\ lock' = IF lock = t THEN GuardDrop(lock) ELSE lock
    /\ poisoned' = poisoned
    /\ returned' = IF req[t].op = "create" /\ resp[t].status = "ok"
                   THEN returned \cup {resp[t].id} ELSE returned
    /\ pc' = [pc EXCEPT ![t] = "idle"]
    /\ req' = [req EXCEPT ![t] = NoReq]
    /\ resp' = [resp EXCEPT ![t] = NoResp]
    /\ UNCHANGED <<map, stream, issued, log, ops, windowVars, banditVars, climberVars>>

\* The handler returns or unwinds: a guard it holds is dropped, which
\* poisons the mutex when the task is panicking; the response goes out.
Return(t) ==
    /\ pc[t] \in {"ret", "unwind"}
    /\ lock' = IF lock = t THEN GuardDrop(lock) ELSE lock
    /\ poisoned' = (poisoned \/ (lock = t /\ pc[t] = "unwind"))
    /\ returned' = IF req[t].op = "create" /\ resp[t].status = "ok"
                   THEN returned \cup {resp[t].id} ELSE returned
    /\ pc' = [pc EXCEPT ![t] = "idle"]
    /\ req' = [req EXCEPT ![t] = NoReq]
    /\ resp' = [resp EXCEPT ![t] = NoResp]
    /\ UNCHANGED <<map, stream, issued, log, ops, windowVars, banditVars, climberVars>>

Handler(t) ==
    \/ LockPoisoned(t)
    \/ InsertBody(t)
    \/ SelectBody(t)
    \/ UpdateBody(t)
    \/ StatsBody(t)
    \/ Return(t)

\* A request that can change the registry is let in while the model has
\* room for it.
Admits(r) == Changes(r) => ops < MaxOps

\* What concurrent clients send: to a one-armed epsilon-greedy bandit.
ConcCreates == CreateReqs({"epsilon_greedy"}, {<<-1, 1>>, <<1, 2>>}, {1})
ConcCalls ==
    CallReqs(returned, {0, 1}, RegRewards) \cup CallReqs({UnknownId}, {0}, {1})

\* Two tasks serve concurrent clients.
Next ==
    \E t \in Tasks :
        \/ \E r \in ConcCreates : Admits(r) /\ CreateStart(t, r)
        \/ \E r \in ConcCalls : Admits(r) /\ CallStart(t, r)
        \/ Handler(t)

Spec == Init /\ [][Next]_vars

\* What one client at a time sends: creates with every strategy, parameter
\* and arm count of the sets below, calls with arms up to one past the end.
SeqCreates == CreateReqs(Strategies, RegParams, {0, 2})
SeqCalls ==
    CallReqs(returned, {0, 1, 2}, RegRewards) \cup CallReqs({UnknownId}, {0}, {1})

\* One task serves the requests one after the other.
NextCalls ==
    \/ \E r \in SeqCreates : Admits(r) /\ CreateStart(1, r)
    \/ \E r \in SeqCalls : Admits(r) /\ CallStart(1, r)
    \/ Handler(1)

SpecCalls == Init /\ [][NextCalls]_vars

\* -------------------------------------------------------- registry claims
CallOps == {"select", "update", "stats"}

\* The step in which task t's call gets its outcome.
Answers(t) == resp[t] = NoResp /\ resp'[t] # NoResp

\* C5: select, update and stats called with an id that create never returned
\* fail with not-found and leave the registry unchanged.
C5_UnknownIdNotFound ==
    [][\A t \in Tasks :
          (Answers(t) /\ req[t].op \in CallOps /\ req[t].id \notin returned)
              => (resp'[t] = NotFound /\ map' = map /\ log' = log)]_vars

\* C6: what the claim calls an invalid create request.
C6_Invalid(r) ==
    \/ r.strategy \notin {"epsilon_greedy", "ucb1"}
    \/ r.num_arms = 0
    \/ r.strategy = "epsilon_greedy" /\ (RLt(r.param, RInt(0)) \/ RGt(r.param, RInt(1)))
    \/ r.strategy = "ucb1" /\ RLt(r.param, RInt(0))

\* C6: create fails with invalid-argument when the kind is neither
\* epsilon_greedy nor ucb1, when num_arms is 0, when the kind is epsilon_greedy
\* and the parameter is outside [0, 1], or when the kind is ucb1 and the
\* parameter is negative; a failed create leaves the map as it was and returns
\* no id; a successful create adds exactly one new entry, under the id it
\* returns, and leaves the other entries as they were.
C6_CreateValidation ==
    [][\A t \in Tasks :
          /\ (pc[t] = "idle" /\ pc'[t] # "idle" /\ req'[t].op = "create")
                => \/ resp'[t] = BadRequest /\ map' = map /\ issued' = issued
                   \/ \A r \in SeqCreates : CreateStart(t, r) => ~C6_Invalid(r)
          /\ (Answers(t) /\ req'[t].op = "create")
                => IF resp'[t].status = "ok"
                   THEN /\ resp'[t].id \notin DOMAIN map
                        /\ resp'[t].id \notin returned
                        /\ DOMAIN map' = DOMAIN map \cup {resp'[t].id}
                        /\ \A i \in DOMAIN map : map'[i] = map[i]
                   ELSE /\ map' = map
                        /\ "id" \notin DOMAIN resp'[t]
          /\ (pc[t] \in {"ret", "unwind"} /\ pc'[t] = "idle" /\ req[t].op = "create")
                => /\ map' = map
                   /\ returned' = IF resp[t].status = "ok"
                                  THEN returned \cup {resp[t].id} ELSE returned]_vars

\* A create is rejected while the map holds the entry of an earlier one that
\* succeeded.
C6_Witness ==
    /\ pc[1] = "ret"
    /\ req[1].op = "create"
    /\ resp[1] = BadRequest
    /\ returned # {}
    /\ returned = DOMAIN map

\* C7: every successful select on an entry created with n arms returns an
\* arm index in [0, n).
C7_SelectInRange ==
    \A t \in Tasks :
        (pc[t] = "ret" /\ req[t].op = "select" /\ resp[t].status = "ok")
            => (resp[t].arm >= 0 /\ resp[t].arm < log[req[t].id].num_arms)

\* A select on a two-armed entry that has been updated returns the last arm.
C7_Witness ==
    \E t \in Tasks :
        /\ pc[t] = "ret"
        /\ req[t].op = "select"
        /\ resp[t].status = "ok"
        /\ log[req[t].id].num_arms = 2
        /\ log[req[t].id].rewards # <<>>
        /\ resp[t].arm = 1

\* A task that has passed the statement taking the lock and not yet returned.
InMap(t) == pc[t] \in {"ret", "unwind"} /\ resp[t] # BadRequest

\* C8: select, update, stats and the insertion of create run under one
\* exclusive lock: a call that is in the map holds the lock, and at most one
\* call is in the map at any time.
C8_OneCallInMap ==
    /\ \A t \in Tasks : InMap(t) => lock = t
    /\ \A t, u \in Tasks : (InMap(t) /\ InMap(u)) => t = u

\* One call is in the map while the other task's call waits for the lock.
C8_Witness ==
    \E t, u \in Tasks :
        /\ InMap(t)
        /\ req[t].op = "update"
        /\ Found(map, req[t].id)
        /\ pc[u] = "lock"
        /\ req[u].op = "select"
        /\ req[u].id = req[t].id

\* ------------------------------------------------------------- progress
\* The step in which task t takes the lock and runs what its handler does
\* under it.
UnderLock(t) ==
    LockPoisoned(t) \/ InsertBody(t) \/ SelectBody(t) \/ UpdateBody(t) \/ StatsBody(t)

\* The runtime keeps running a handler that can return, and the mutex does
\* not pass over a waiting task for ever.  Clients need not send anything.
Fairness ==
    \A t \in Tasks : WF_vars(Return(t)) /\ SF_vars(UnderLock(t))

\* The requests that change the registry in a run of SpecFair.
MaxFairOps == 3

\* What the clients send: to a one-armed UCB1 bandit.
FairCreates == CreateReqs({"ucb1"}, {<<-1, 1>>, <<0, 1>>}, {1})
FairCalls == CallReqs(returned, {0, 1}, {1}) \cup CallReqs({UnknownId}, {0}, {1})

NextFair ==
    \E t \in Tasks :
        \/ \E r \in FairCreates : (Changes(r) => ops < MaxFairOps) /\ CreateStart(t, r)
        \/ \E r \in FairCalls : (Changes(r) => ops < MaxFairOps) /\ CallStart(t, r)
        \/ Handler(t)

SpecFair == Init /\ [][NextFair]_vars /\ Fairness

MaxStatsUpdates == 51
MaxVaried == 2
UsualRewards == {1}
RareRewards == {0, 3}

StatsCreates == CreateReqs({"epsilon_greedy", "ucb1"}, {<<0, 1>>}, {2})

\* An update is sent while the run has room for it; the first MaxVaried
\* rewards and those sent once the tracker would be full are any of the
\* rewards, the ones between are the usual one; the first MaxVaried updates
\* go to either arm, the later ones to the first.
StatsAdmits(r) ==
    r.op = "update" =>
        /\ Len(log[r.id].rewards) < MaxStatsUpdates
        /\ r.reward \in RareRewards =>
               \/ Len(log[r.id].rewards) < MaxVaried
               \/ Len(log[r.id].rewards) >= TrackerWindow
        /\ r.arm # 0 => Len(log[r.id].rewards) < MaxVaried

\* One client creates a two-armed bandit of either kind, feeds it rewards and
\* reads its statistics.
NextStats ==
    \/ \E r \in StatsCreates : issued = 0 /\ CreateStart(1, r)
    \/ \E r \in [op : {"stats"}, id : returned]
                  \cup [op : {"update"}, id : returned, arm : {0, 1},
                        reward : UsualRewards \cup RareRewards] :
          StatsAdmits(r) /\ CallStart(1, r)
    \/ InsertBody(1)
    \/ UpdateBody(1)
    \/ StatsBody(1)
    \/ Return(1)

SpecStats == Init /\ [][NextStats]_vars

\* The least and the greatest element of a non-empty sequence of numbers.
SeqMin(s) == CHOOSE x \in {s[i] : i \in 1..Len(s)} : \A j \in 1..Len(s) : ~RLt(s[j], x)
SeqMax(s) == CHOOSE x \in {s[i] : i \in 1..Len(s)} : \A j \in 1..Len(s) : ~RGt(s[j], x)

\* C10: for an epsilon-greedy entry, stats returns the mean, minimum, maximum
\* and count of exactly the last min(k, 50) rewards of the k successful
\* updates so far; the count is never above 50; an entry never updated
\* reports 0, 0, 0 and count 0.
C10_StatsOfLastFifty ==
    \A t \in Tasks :
        (pc[t] = "ret" /\ req[t].op = "stats" /\ resp[t].status = "ok"
            /\ map[req[t].id].tag = "EpsilonGreedy")
        => LET fed == log[req[t].id].rewards
               k == Len(fed)
               last == LastN(fed, Min2(k, 50))
               st == resp[t].stats
           IN  /\ st.count = Min2(k, 50)
               /\ st.count <= 50
               /\ IF k = 0
                  THEN st.mean = RZero /\ st.min = RZero /\ st.max = RZero
                  ELSE /\ st.mean = Rat(RSum(last)[1], RSum(last)[2] * Len(last))
                       /\ st.min = SeqMin(last)
                       /\ st.max = SeqMax(last)

\* Statistics read after 51 updates of which the first carried the rare
\* reward 3: the window has let go of it.
C10_Witness ==
    /\ pc[1] = "ret"
    /\ req[1].op = "stats"
    /\ resp[1].status = "ok"
    /\ Len(log[req[1].id].rewards) = 51
    /\ log[req[1].id].rewards[1] = RInt(3)
    /\ resp[1].stats.count = 50
    /\ resp[1].stats.max = RInt(1)

\* ------------------------------------------------------- UCB1 statistics
\* C11: for a UCB1 entry with n arms, stats returns the sum of the n per-arm
\* means divided by n (an arm never pulled counts as 0), the least and the
\* greatest of the n per-arm means, and as count the number of successful
\* updates on the id, whatever their number; the entry has no tracker.
C11_Ucb1Stats ==
    \A t \in Tasks :
        (pc[t] = "ret" /\ req[t].op = "stats" /\ resp[t].status = "ok"
            /\ map[req[t].id].tag = "Ucb1")
        => LET b == map[req[t].id].bandit
               n == log[req[t].id].num_arms
               st == resp[t].stats
           IN  /\ Len(b.values) = n
               /\ \A i \in 1..n : b.counts[i] = 0 => b.values[i] = RZero
               /\ st.mean = Rat(RSum(b.values)[1], RSum(b.values)[2] * n)
               /\ st.min = SeqMin(b.values)
               /\ st.max = SeqMax(b.values)
               /\ st.count = Len(log[req[t].id].rewards)
               /\ "tracker" \notin DOMAIN map[req[t].id]

\* Statistics of a two-armed UCB1 entry after 51 updates, the first two of
\* them on the second arm with reward 3: the count is 51 and the mean is the
\* mean of the two arms' means.
C11_Witness ==
    /\ pc[1] = "ret"
    /\ req[1].op = "stats"
    /\ resp[1].status = "ok"
    /\ map[req[1].id].tag = "Ucb1"
    /\ map[req[1].id].bandit.counts = <<49, 2>>
    /\ resp[1].stats.count = 51
    /\ resp[1].stats.min = RInt(1)
    /\ resp[1].stats.max = RInt(3)
    /\ resp[1].stats.mean = RInt(2)

\* ------------------------------------------------- the hill climber alone
\* The calls made on the climber.
MaxClimbOps == 5

\* Construction arguments; with_params refuses some of them.
ClimbX0s == {RZero}
ClimbSteps == {RZero, <<1, 2>>, RInt(2)}
ClimbMinSteps == {RInt(1)}
ClimbGrows == {RInt(1), RInt(2)}
ClimbShrinks == {RZero, <<1, 2>>, RInt(1)}
\* The arguments of reset and of observe.
ResetXs == {RInt(1)}
ClimbRewards == {RZero, RInt(1), NaN}

InitClimber ==
    /\ WindowIdle
    /\ BanditIdle
    /\ RegistryIdle
    /\ \E x0 \in ClimbX0s :
          \/ hc = HillClimber1D_new(x0)
          \/ \E step \in ClimbSteps, min_step \in ClimbMinSteps,
                 grow \in ClimbGrows, shrink \in ClimbShrinks :
                /\ HillClimber1D_accepts(step, min_step, grow, shrink)
                /\ hc = HillClimber1D_with_params(x0, step, min_step, grow, shrink)
    /\ hcHist = <<>>
    /\ hcOps = 0

\* One call: what it was, the state it found, what it returned.
ClimbCall(op, arg, ret) == [op |-> op, arg |-> arg, ret |-> ret, before |-> hc]

Suggest ==
    /\ hcOps < MaxClimbOps
    /\ hc' = HillClimber1D_suggest(hc)
    /\ hcHist' = Append(hcHist,
                    ClimbCall("suggest", None, Some(HillClimber1D_suggested(hc))))
    /\ hcOps' = hcOps + 1
    /\ UNCHANGED <<windowVars, banditVars, registryVars>>

Observe ==
    /\ hcOps < MaxClimbOps
    /\ \E reward \in ClimbRewards :
          /\ hc' = HillClimber1D_observe(hc, reward)
          /\ hcHist' = Append(hcHist, ClimbCall("observe", Some(reward), None))
    /\ hcOps' = hcOps + 1
    /\ UNCHANGED <<windowVars, banditVars, registryVars>>

Reset ==
    /\ hcOps < MaxClimbOps
    /\ \E x0 \in ResetXs :
          /\ hc' = HillClimber1D_reset(hc, x0)
          /\ hcHist' = Append(hcHist, ClimbCall("reset", Some(x0), None))
    /\ hcOps' = hcOps + 1
    /\ UNCHANGED <<windowVars, banditVars, registryVars>>

NextClimber == Suggest \/ Observe \/ Reset

SpecClimber == InitClimber /\ [][NextClimber]_vars

\* The state call i of the history left behind.
After(i) == IF i = Len(hcHist) THEN hc ELSE hcHist[i + 1].before

\* C12: suggest returns x itself when no suggestion is outstanding, as in
\* the first suggest after construction or after a reset, and x + dir * step
\* otherwise; it records what it returned as last_suggested and changes
\* none of x, dir, step, last_reward.
C12_SuggestReturns ==
    \A i \in 1..Len(hcHist) :
        hcHist[i].op = "suggest" =>
            LET b == hcHist[i].before
                a == After(i)
            IN  /\ (i = 1 \/ (i > 1 /\ hcHist[i - 1].op = "reset"))
                       => b.last_suggested = None
                /\ b.last_suggested = None => hcHist[i].ret = Some(b.x)
                /\ b.last_suggested # None
                       => hcHist[i].ret = Some(RAdd(b.x, RMul(b.dir, b.step)))
                /\ a.last_suggested = hcHist[i].ret
                /\ a = [b EXCEPT !.last_suggested = a.last_suggested]

\* A first suggest after a reset, then one that steps down from x after a
\* regression.
C12_Witness ==
    /\ Len(hcHist) = 5
    /\ hcHist[1].op = "suggest" /\ hcHist[1].ret = Some(RZero)
    /\ hcHist[5].op = "suggest" /\ hcHist[5].before.dir = RInt(-1)
    /\ hcHist[5].ret = Some(RInt(-1))
    /\ hc.x = RZero

\* Call i is an observe made with a previous reward on record.
ObservesAfterReward(i) ==
    /\ hcHist[i].op = "observe"
    /\ hcHist[i].before.last_reward # None

\* Call i is an observe of a number below the number on record.
Regression(i) ==
    /\ ObservesAfterReward(i)
    /\ ~IsNaN(hcHist[i].arg[1])
    /\ ~IsNaN(hcHist[i].before.last_reward[1])
    /\ RLt(hcHist[i].arg[1], hcHist[i].before.last_reward[1])

\* Call i is an observe of a number not below the number on record.
Improvement(i) ==
    /\ ObservesAfterReward(i)
    /\ ~IsNaN(hcHist[i].arg[1])
    /\ ~IsNaN(hcHist[i].before.last_reward[1])
    /\ ~RLt(hcHist[i].arg[1], hcHist[i].before.last_reward[1])

\* C13: an observe of a reward below the recorded one negates dir, sets
\* step to max(step * shrink, min_step), and leaves x and last_reward as
\* they were; a suggest that comes next returns x moved against the old
\* direction by the shrunk step.
C13_RegressionTurns ==
    \A i \in 1..Len(hcHist) :
        Regression(i) =>
            LET b == hcHist[i].before
                a == After(i)
                shrunk == IF RLt(RMul(b.step, b.shrink), b.min_step)
                          THEN b.min_step ELSE RMul(b.step, b.shrink)
            IN  /\ a.dir = RNeg(b.dir)
                /\ a.step = shrunk
                /\ a.x = b.x
                /\ a.last_reward = b.last_reward
                /\ a = [b EXCEPT !.dir = a.dir, !.step = a.step]
                /\ (i < Len(hcHist) /\ hcHist[i + 1].op = "suggest")
                       => hcHist[i + 1].ret
                              = Some(RSub(b.x, RMul(b.dir, shrunk)))

\* A regression with shrink 0 that leaves the step at min_step, and the
\* suggest after it.
C13_Witness ==
    /\ Len(hcHist) = 5
    /\ Regression(4)
    /\ hcHist[4].before.shrink = RZero
    /\ hcHist[4].before.step = RInt(2)
    /\ hcHist[5].op = "suggest"
    /\ hcHist[5].before.step = RInt(1)
    /\ hcHist[5].ret = Some(RInt(-1))

\* C14: an observe of a reward not below the recorded one adopts the last
\* suggestion as x, multiplies step by grow, records the reward, and
\* leaves dir as it was.
C14_ImprovementAdopts ==
    \A i \in 1..Len(hcHist) :
        Improvement(i) =>
            LET b == hcHist[i].before
                a == After(i)
            IN  /\ b.last_suggested # None
                /\ a.x = b.last_suggested[1]
                /\ a.step = RMul(b.step, b.grow)
                /\ a.last_reward = hcHist[i].arg
                /\ a.dir = b.dir
                /\ a = [b EXCEPT !.x = a.x, !.step = a.step,
                                  !.last_reward = a.last_reward]

\* An improvement from reward 0 to reward 1 that moves x to the suggestion
\* and doubles the step.
C14_Witness ==
    /\ Len(hcHist) = 4
    /\ Improvement(4)
    /\ hcHist[4].before.last_reward = Some(RZero)
    /\ hcHist[4].arg = Some(RInt(1))
    /\ hcHist[4].before.x = RZero
    /\ hc.x = RInt(2)
    /\ hc.step = RInt(4)
    /\ hc.last_reward = Some(RInt(1))

\* C15: an observe with no reward on record and a suggestion outstanding
\* adopts the suggestion as x and records the reward, whatever it is, and
\* leaves dir and step as they were.
C15_FirstObserveAdopts ==
    \A i \in 1..Len(hcHist) :
        (/\ hcHist[i].op = "observe"
         /\ hcHist[i].before.last_reward = None
         /\ hcHist[i].before.last_suggested # None) =>
            LET b == hcHist[i].before
                a == After(i)
            IN  /\ a.x = b.last_suggested[1]
                /\ a.last_reward = hcHist[i].arg
                /\ a.dir = b.dir
                /\ a.step = b.step
                /\ a = [b EXCEPT !.x = a.x, !.last_reward = a.last_reward]

\* A first observe of something that is not a number, after two suggests:
\* the second suggestion, one step from x, is adopted.
C15_Witness ==
    /\ Len(hcHist) = 3
    /\ hcHist[1].op = "suggest"
    /\ hcHist[2].op = "suggest"
    /\ hcHist[3].op = "observe"
    /\ hcHist[3].arg = Some(NaN)
    /\ hcHist[3].before.x = RZero
    /\ hc.x = RInt(2)
    /\ hc.last_reward = Some(NaN)
    /\ hc.step = RInt(2)

\* C16: reset(x0) sets x to x0 and dir to +1, keeps the adapted step but
\* not below min_step, and clears last_reward and last_suggested; a
\* suggest that comes next returns x0, and an observe after that adopts
\* x0 and records its reward without comparing it with anything.
C16_ResetRestarts ==
    \A i \in 1..Len(hcHist) :
        hcHist[i].op = "reset" =>
            LET b == hcHist[i].before
                a == After(i)
                x0 == hcHist[i].arg[1]
            IN  /\ a.x = x0
                /\ a.dir = RInt(1)
                /\ a.step = IF RLt(b.step, b.min_step) THEN b.min_step
                                                      ELSE b.step
                /\ a.last_reward = None
                /\ a.last_suggested = None
                /\ a = [b EXCEPT !.x = a.x, !.dir = a.dir, !.step = a.step,
                                  !.last_reward = None, !.last_suggested = None]
                /\ (i < Len(hcHist) /\ hcHist[i + 1].op = "suggest")
                       => hcHist[i + 1].ret = Some(x0)
                /\ (i + 1 < Len(hcHist) /\ hcHist[i + 1].op = "suggest"
                        /\ hcHist[i + 2].op = "observe")
                       => /\ After(i + 2).x = x0
                          /\ After(i + 2).last_reward = hcHist[i + 2].arg
                          /\ After(i + 2).dir = a.dir
                          /\ After(i + 2).step = a.step
                /\ (i < Len(hcHist) /\ hcHist[i + 1].op = "observe")
                       => After(i + 1) = a

\* A reset of a climber whose step, built below min_step, was never
\* adapted; then a suggest and an observe of a reward below the one reset
\* forgot.
C16_Witness ==
    /\ Len(hcHist) = 5
    /\ hcHist[3].op = "reset"
    /\ hcHist[3].before.step = <<1, 2>>
    /\ hcHist[3].before.min_step = RInt(1)
    /\ hcHist[3].before.last_reward = Some(RInt(1))
    /\ hcHist[4].op = "suggest"
    /\ hcHist[4].before.step = RInt(1)
    /\ hcHist[4].ret = Some(RInt(1))
    /\ hcHist[5].op = "observe"
    /\ hc.x = RInt(1)
    /\ hc.last_reward = Some(RZero)
    /\ hc.dir = RInt(1)

\* ------------------------------------------ the stand-alone tracker's answers
\* C17: on a tracker that holds nothing, mean, min and max return 0 and
\* count returns 0.
C17_EmptyTrackerZeros ==
    rt.values = <<>> =>
        /\ RewardTracker_mean(rt) = RZero
        /\ RewardTracker_min(rt) = RZero
        /\ RewardTracker_max(rt) = RZero
        /\ RewardTracker_count(rt) = 0

\* A tracker of window 3 never updated, asked for its four answers while
\* the normalizer beside it has been fed.
C17_Witness ==
    /\ rtFed = <<>>
    /\ rnFed # <<>>
    /\ rt.window = 3
    /\ rt.values = <<>>
    /\ <<RewardTracker_mean(rt), RewardTracker_min(rt), RewardTracker_max(rt)>>
           = <<RZero, RZero, RZero>>
    /\ RewardTracker_count(rt) = 0

\* The values a tracker of window w holds after being fed the sequence fed.
Kept(fed, w) == LastN(fed, Min2(Len(fed), w))

\* C18: on a tracker that holds something, mean is the arithmetic mean,
\* min the least and max the greatest of the last min(n, window) of the n
\* values supplied, and count is their number; values supplied earlier
\* have no part in any of them.
C18_StatsOverBuffer ==
    rtFed # <<>> =>
        LET kept == Kept(rtFed, rt.window)
            total == RSum(kept)
        IN  /\ RewardTracker_mean(rt) = Rat(total[1], total[2] * Len(kept))
            /\ RewardTracker_min(rt) = SeqMin(kept)
            /\ RewardTracker_max(rt) = SeqMax(kept)
            /\ RewardTracker_count(rt) = Len(kept)
            /\ RewardTracker_count(rt) > 0

\* A tracker of window 2 fed 0, 3, 1: the 0 it dropped was the least value
\* supplied, and mean 2, min 1, max 3, count 2 are those of 3, 1.
C18_Witness ==
    /\ rt.window = 2
    /\ rtFed = <<RInt(0), RInt(3), RInt(1)>>
    /\ RewardTracker_mean(rt) = RInt(2)
    /\ RewardTracker_min(rt) = RInt(1)
    /\ RewardTracker_max(rt) = RInt(3)
    /\ RewardTracker_count(rt) = 2

\* ------------------------------------------------- the normalizer's answers
\* Every value the normalizer holds is the same one.
AllIdentical(values) == \A i, j \in 1..Len(values) : values[i] = values[j]

\* A result that is a sigmoid of some z with |z| >= 1, up to the rounding of
\* one product: such a sigmoid is below 0.27 or above 0.73.
FarFromHalf(res) ==
    res.sigmoid /\ ~F64Lt(F64Mul(res.num, res.num), res.var)

\* C19: normalized(r) returns 0.5 for every r when the normalizer holds
\* nothing and when all the values it holds are identical, values that
\* differed having been dropped or not. Stated here in a weaker form: no
\* such result is a sigmoid far from 0.5.
C19_DegenerateIsHalf ==
    AllIdentical(rn.values) =>
        \A r \in NormRewards :
            ~FarFromHalf(RewardNormalizer_normalized(rn, F64Of(r[1], r[2])))

\* ------------------------------------------------- the shape of a strategy
\* counts and values have one element per arm, and while no update has been
\* made every count is 0 and every value 0.0. The number of arms the
\* strategy was built with is the length of the history calls.
Shaped(b, made) ==
    /\ Len(b.counts) = Len(made)
    /\ Len(b.values) = Len(made)
    /\ SumSeq(made) = 0 =>
           /\ b.counts = Zeros(Len(made))
           /\ b.values = RZeros(Len(made))

\* C20: a strategy of either kind built with n arms has n counts and n
\* values in every state, all of them 0 until the first update, select_arm
\* calls or not; and no call, select_arm or update, lowers a count.
C20_CountsShape ==
    [][/\ Shaped(bandit, calls)
       /\ Shaped(bandit', calls')
       /\ \A i \in 1..Len(calls) : bandit'.counts[i] >= bandit.counts[i]]_vars

\* A three-armed epsilon-greedy strategy after select_arm calls and three
\* updates that left one arm never pulled.
C20_Witness ==
    /\ bandit.kind = "epsilon_greedy"
    /\ bandit.rng > 0
    /\ Len(calls) = 3
    /\ bandit.counts = <<2, 0, 1>>
    /\ bandit.values[2] = RZero

\* ------------------------------------------------ the climber's invariants
\* The climber as it was constructed.
Constructed == IF hcHist = <<>> THEN hc ELSE hcHist[1].before

SelectedOnScores ==
    /\ bandit.kind = "ucb1"
    /\ sinceUpdate > 0
    /\ \A i \in 1..NumArms : bandit.counts[i] >= 1

\* C22: with every arm pulled at least once, select_arm returns the arm of
\* the greatest score values[i] + c * sqrt(2 * ln(total) / counts[i]), the
\* lowest index among equal scores; with c = 0 that is the lowest index
\* among the greatest values.
C22_GreatestScore ==
    SelectedOnScores =>
        LET total == SumSeq(bandit.counts)
            score(i) == Ucb1_score(bandit, total, i)
            chosen == lastArm + 1
        IN  /\ scored
            /\ chosen \in 1..NumArms
            /\ \A j \in 1..NumArms : score(j) <= score(chosen)
            /\ \A j \in 1..(chosen - 1) : score(j) < score(chosen)
            /\ bandit.c = RZero =>
                   /\ \A j \in 1..NumArms :
                          ~RGt(bandit.values[j], bandit.values[chosen])
                   /\ \A j \in 1..(chosen - 1) :
                          RLt(bandit.values[j], bandit.values[chosen])

\* Two arms, c = 2: arm 0 with mean 3/2 over two pulls loses to arm 1 with
\* mean 1 over one pull, whose bonus is larger.
C22_Witness ==
    /\ SelectedOnScores
    /\ bandit.c = RInt(2)
    /\ bandit.counts = <<2, 1>>
    /\ bandit.values = <<Rat(3, 2), RInt(1)>>
    /\ lastArm = 1

\* --------------------------------------------------- what select_arm writes
\* A step of select_arm: it is not an update, which counts a call, nor a
\* failed update, which panics.
SelectStep == calls' = calls /\ panicked' = panicked

\* C23: select_arm changes neither counts nor values. On a Ucb1 it changes
\* nothing, so a call that follows another with no update between returns
\* the same arm; on an EpsilonGreedy it changes the state of the random
\* source and nothing else, and it advances that state on every call.
C23_SelectWritesNothing ==
    [][SelectStep =>
          /\ bandit'.counts = bandit.counts
          /\ bandit'.values = bandit.values
          /\ bandit.kind = "ucb1" =>
                 /\ bandit' = bandit
                 /\ sinceUpdate > 0 => lastArm' = lastArm
          /\ bandit.kind = "epsilon_greedy" =>
                 /\ bandit'.rng > bandit.rng
                 /\ bandit' = [bandit EXCEPT !.rng = bandit'.rng]]_vars

\* An EpsilonGreedy with epsilon 0, which never explores, after two
\* select_arm calls that followed an update: the source has advanced twice.
C23_Witness ==
    /\ bandit.kind = "epsilon_greedy"
    /\ bandit.epsilon = RZero
    /\ SumSeq(bandit.counts) = 1
    /\ sinceUpdate = 2
    /\ bandit.rng = 2

\* ------------------------------------------------- entries stay in the map
\* What an entry is from its creation on: its kind, its number of arms and
\* its parameter.
Static(e) ==
    <<e.tag, Len(e.bandit.counts), Len(e.bandit.values),
      IF e.tag = "EpsilonGreedy" THEN e.bandit.epsilon ELSE e.bandit.c>>

\* C24: the registry never removes or replaces an entry. An id create has
\* returned is in the map, no step takes an id out of the map or puts
\* another kind of entry under it, the set of returned ids only grows, and
\* no select, update or stats call on a returned id is answered not-found.
C24_EntriesStay ==
    [][/\ returned \subseteq DOMAIN map
       /\ returned \subseteq returned'
       /\ \A id \in DOMAIN map :
              id \in DOMAIN map' /\ Static(map'[id]) = Static(map[id])
       /\ \A t \in Tasks :
              (Answers(t) /\ req'[t].op \in CallOps /\ req'[t].id \in returned)
                  => resp'[t] # NotFound]_vars

\* Two entries, the first created before the second and updated since,
\* answering a stats call.
C24_Witness ==
    /\ returned = {1, 2}
    /\ Len(log[1].rewards) = 1
    /\ pc[1] = "ret"
    /\ req[1].op = "stats" /\ req[1].id = 1
    /\ resp[1].status = "ok"

\* ---------------------------------------------- an arm past the end
\* Task t's call is an update of a known entry with an arm that entry does
\* not have.
UpdatesPastEnd(t) ==
    /\ req[t].op = "update"
    /\ Found(map, req[t].id)
    /\ req[t].arm >= log[req[t].id].num_arms

\* C25: an update of a known id with arm >= num_arms is not turned away
\* with an error value: it ends as a panic, and it changes nothing of the
\* map, so none of the entry's counts, values or tracker.
C25_PastEndPanics ==
    [][\A t \in Tasks :
          (Answers(t) /\ UpdatesPastEnd(t))
              => /\ resp'[t] = Panic
                 /\ pc'[t] = "unwind"
                 /\ lock' = t
                 /\ map' = map]_vars

\* An update with arm 2 of a two-armed epsilon-greedy entry that has taken
\* one reward, panicking under a mutex that was not poisoned.
C25_Witness ==
    /\ pc[1] = "unwind"
    /\ ~poisoned
    /\ UpdatesPastEnd(1)
    /\ req[1].arm = 2
    /\ map[req[1].id].tag = "EpsilonGreedy"
    /\ Len(map[req[1].id].tracker.values) = 1
    /\ SumSeq(map[req[1].id].bandit.counts) = 1

\* ------------------------------------------------------ twin entries
\* The select and update calls each of the two entries serves.
MaxTwinCalls == 3

\* Two epsilon-greedy entries are created with the same parameters.
TwinCreates == CreateReqs({"epsilon_greedy"}, {<<1, 2>>}, {2})
TwinCalls(id) == CallReqs({id}, {1}, {3}) \ [op : {"stats"}, id : {id}]

\* A call without what it returned: the request as the client made it.
Arg(c) == IF c[1] = "select" THEN <<"select">> ELSE c
ReqArg(r) ==
    IF r.op = "select" THEN <<"select">> ELSE <<"update", r.arm, RInt(r.reward)>>

\* One client drives entry 1 with any calls and entry 2, behind it, with
\* the same calls in the same order.
NextTwins ==
    \/ \E r \in TwinCreates :
          /\ issued = 0 \/ (returned = {1} /\ issued = 1
                                /\ r.param = map[1].bandit.epsilon)
          /\ CreateStart(1, r)
    \/ \E r \in TwinCalls(1) :
          /\ returned = {1, 2}
          /\ Len(log[1].calls) < MaxTwinCalls
          /\ CallStart(1, r)
    \/ \E r \in TwinCalls(2) :
          /\ returned = {1, 2}
          /\ Len(log[2].calls) < Len(log[1].calls)
          /\ ReqArg(r) = Arg(log[1].calls[Len(log[2].calls) + 1])
          /\ CallStart(1, r)
    \/ InsertBody(1)
    \/ SelectBody(1)
    \/ UpdateBody(1)
    \/ Return(1)

SpecTwins == Init /\ [][NextTwins]_vars

\* The first k calls of two histories were the same requests.
SameRequests(a, b, k) == \A j \in 1..k : Arg(a[j]) = Arg(b[j])

\* C27: two EpsilonGreedy instances built with the same num_arms and
\* epsilon, here two registry entries, that are sent the same select_arm
\* and update calls in the same order return the same arm at every
\* select_arm, and are in the same state after the same number of calls.
C27_SameSeedSameArms ==
    \A A, B \in DOMAIN map :
        (/\ map[A].tag = "EpsilonGreedy" /\ map[B].tag = "EpsilonGreedy"
         /\ Static(map[A]) = Static(map[B])) =>
            LET a == log[A].calls
                b == log[B].calls
            IN  /\ \A k \in 1..Min2(Len(a), Len(b)) :
                       SameRequests(a, b, k) => a[k] = b[k]
                /\ (Len(a) = Len(b) /\ SameRequests(a, b, Len(a)))
                       => map[A].bandit = map[B].bandit

\* Both entries, epsilon 1/2, have served select, update, select; the first
\* select explored and returned arm 1, which no exploiting call would.
C27_Witness ==
    /\ returned = {1, 2}
    /\ map[1].bandit.epsilon = <<1, 2>>
    /\ Len(log[1].calls) = 3
    /\ log[2].calls = log[1].calls
    /\ log[1].calls[1] = <<"select", 1>>
    /\ log[1].calls[2][1] = "update"
    /\ log[1].calls[3][1] = "select"

\* ------------------------------------------------- the convergence run
\* The cycles of suggest and observe the test runs.
Cycles == 100

InitConverge ==
    /\ WindowIdle
    /\ BanditIdle
    /\ RegistryIdle
    /\ hc = HillClimber1D_with_params64(F64Zero, F64Of(1, 2), F64Of(1, 100),
                                        F64Of(11, 10), F64Of(1, 2))
    /\ hcHist = <<>>
    /\ hcOps = 0

\* The first half of a cycle: x = opt.suggest().
CycleSuggest ==
    /\ hcOps < 2 * Cycles
    /\ hcOps % 2 = 0
    /\ hc' = HillClimber1D_suggest64(hc)
    /\ hcHist' = Append(hcHist,
                    ClimbCall("suggest", None, Some(HillClimber1D_suggested64(hc))))
    /\ hcOps' = hcOps + 1
    /\ UNCHANGED <<windowVars, banditVars, registryVars>>

\* The second half: opt.observe(reward_fn(x)).
CycleObserve ==
    /\ hcOps < 2 * Cycles
    /\ hcOps % 2 = 1
    /\ LET reward == reward_fn(hcHist[hcOps].ret[1])
       IN  /\ hc' = HillClimber1D_observe64(hc, reward)
           /\ hcHist' = Append(hcHist, ClimbCall("observe", Some(reward), None))
    /\ hcOps' = hcOps + 1
    /\ UNCHANGED <<windowVars, banditVars, registryVars>>

NextConverge == CycleSuggest \/ CycleObserve

SpecConverge == InitConverge /\ [][NextConverge]_vars

\* The distance of a binary64 number from 3.0.
FromThree(x) ==
    LET d == F64Sub(x, F64OfInt(3))
    IN  IF d.sign = -1 THEN F64Neg(d) ELSE d

\* C29: on the reward -(x - 3)^2 + 10, the climber built with x0 = 0.0,
\* step 0.5, min_step 0.01, grow 1.1 and shrink 0.5 has, after 100 cycles
\* of suggest and observe of the reward at the suggestion, a param() less
\* than 0.2 away from 3.0.
C29_ConvergesNearThree ==
    hcOps = 2 * Cycles => F64Lt(FromThree(HillClimber1D_param(hc)), F64Of(2, 10))

\* The run is over: the climber overshot the optimum, turned, and its step
\* is down on min_step, with x not 3.0 itself.
C29_Witness ==
    /\ hcOps = 2 * Cycles
    /\ hc.step = hc.min_step
    /\ ~F64IsZero(FromThree(hc.x))
    /\ \E i \in 1..Len(hcHist) :
          hcHist[i].op = "observe" /\ After(i).dir # hcHist[i].before.dir

\* C30: registry entries are independent.  The step in which a select,
\* update or stats call on an id gets its outcome, successful or not, leaves
\* every other entry as it was: its strategy with counts, values and
\* position of the random source, and its tracker.
C30_EntriesIndependent ==
    [][\A t \in Tasks :
          (Answers(t) /\ req[t].op \in CallOps) =>
              \A B \in DOMAIN map :
                  B # req[t].id => (B \in DOMAIN map' /\ map'[B] = map[B])]_vars

\* Two entries; a call on one has changed it and has its answer while a
\* call on the other waits for the lock.
C30_Witness ==
    \E A, B \in DOMAIN map, t, u \in Tasks :
        /\ A # B
        /\ pc[t] = "ret" /\ req[t].op \in {"select", "update"} /\ req[t].id = A
        /\ resp[t].status = "ok"
        /\ map[A].bandit # EpsilonGreedy_new(1, map[A].bandit.epsilon)
        /\ pc[u] = "lock" /\ req[u].op \in CallOps /\ req[u].id = B

\* ------------------------------------------------------- concurrent updates
\* The update calls answered on an entry so far, oldest first: all of them,
\* and those made with one arm; and the rewards of such calls.
UpdatesOf(l) == SelectSeq(l.calls, LAMBDA c : c[1] = "update")
UpdatesOn(l, arm) == SelectSeq(l.calls, LAMBDA c : c[1] = "update" /\ c[2] = arm)
RewardsOf(s) == [i \in 1..Len(s) |-> s[i][3]]
MeanOf(s) == IF s = <<>> THEN RZero ELSE Rat(RSum(s)[1], RSum(s)[2] * Len(s))

\* An entry holds every update answered on it: each count is the number of
\* updates of its arm, each value the mean of their rewards, and the tracker
\* of an epsilon-greedy entry has their rewards in the order they were applied.
Accounted(e, l) ==
    IF e.tag = "EpsilonGreedy"
    THEN /\ \A i \in 1..Len(e.bandit.counts) :
               LET rs == RewardsOf(UpdatesOn(l, i - 1))
               IN  e.bandit.counts[i] = Len(rs) /\ e.bandit.values[i] = MeanOf(rs)
         /\ e.tracker.values = Kept(RewardsOf(UpdatesOf(l)), TrackerWindow)
    ELSE SumSeq(e.bandit.counts) = Len(l.rewards)

\* The step in which task t's update with an arm in range gets its outcome,
\* the lock being sound.
UpdatesInRange(t) ==
    /\ Answers(t)
    /\ ~poisoned
    /\ req[t].op = "update"
    /\ Found(map, req[t].id)
    /\ IndexInRange(map[req[t].id].bandit, req[t].arm)

\* C31: no update is lost when update calls on one id run concurrently.
\* Each update with an arm in range, whichever task serves it and in
\* whatever order the tasks get the lock, is answered ok and adds one to the
\* count of its arm and its reward to the end of the tracker; after every
\* step each entry's counts, values and tracker are those of all the updates
\* answered on it so far, in the order they were applied.
C31_NoUpdateLost ==
    [][/\ \A id \in DOMAIN map' : Accounted(map'[id], log'[id])
       /\ \A t \in Tasks :
             UpdatesInRange(t) =>
                 LET id == req[t].id
                     i == req[t].arm + 1
                 IN  /\ resp'[t] = [status |-> "ok"]
                     /\ map'[id].bandit.counts[i] = map[id].bandit.counts[i] + 1
                     /\ map'[id].tag = "EpsilonGreedy" =>
                            map'[id].tracker =
                                RewardTracker_update(map[id].tracker,
                                                     RInt(req[t].reward))]_vars

\* Two updates on one entry are in flight together: task 2, which is given
\* a request only while task 1 is busy, got the lock first and its update is
\* applied; task 1's update, with another reward, waits for the lock.
C31_Witness ==
    \E id \in DOMAIN map :
        /\ pc[2] = "ret" /\ req[2].op = "update" /\ req[2].id = id
        /\ resp[2] = [status |-> "ok"]
        /\ map[id].bandit.counts = <<1>>
        /\ map[id].tracker.values = <<RInt(req[2].reward)>>
        /\ pc[1] = "lock" /\ req[1].op = "update" /\ req[1].id = id
        /\ IndexInRange(map[id].bandit, req[1].arm)
        /\ req[1].reward # req[2].reward

\* --------------------------------------------------------- the poisoned lock
\* The step in which task t, panicking with the guard in hand, drops it.
DropsGuardPanicking(t) == pc[t] = "unwind" /\ lock = t /\ pc'[t] = "idle"

\* The step in which task t gets the mutex, sound or poisoned.
Acquires(t) == pc[t] = "lock" /\ pc'[t] # "lock"

\* C32: an update that panics on an arm out of range holds the registry
\* lock, and the lock is poisoned when its guard is dropped.  From then on
\* the lock stays poisoned, every create, select, update and stats call that
\* comes to acquire it panics, whatever its id, and the map is never
\* changed again, nor does any answer carry anything read from it.
C32_PoisonedForGood ==
    [][/\ \A t \in Tasks :
             (Answers(t) /\ UpdatesPastEnd(t) /\ ~poisoned) =>
                 (pc'[t] = "unwind" /\ lock' = t)
       /\ \A t \in Tasks : DropsGuardPanicking(t) => poisoned'
       /\ poisoned =>
             /\ poisoned'
             /\ map' = map
             /\ \A t \in Tasks :
                   Acquires(t) => (resp'[t] = Panic /\ pc'[t] = "unwind")]_vars

\* The lock is poisoned and there are two entries, neither ever updated: the
\* update that panicked was made on one of them.  A stats call on one has
\* panicked at the lock, and a call on the other is waiting for it.
C32_Witness ==
    /\ poisoned
    /\ \E A, B \in DOMAIN map :
          /\ A # B
          /\ pc[1] = "unwind" /\ req[1].op = "stats" /\ req[1].id = A
          /\ resp[1] = Panic
          /\ pc[2] = "lock" /\ req[2].op \in CallOps /\ req[2].id = B

\* ------------------------------------------------- where param comes from
\* No reset has been called on the climber.
NeverReset == \A i \in 1..Len(hcHist) : hcHist[i].op # "reset"

\* C33: on a climber that is sent suggest and observe calls in any order and
\* never reset, param() is the x0 it was constructed with or a value that
\* an earlier suggest returned; an observe made before any suggest changes
\* nothing; and no suggest changes x.
C33_ParamWasSuggested ==
    NeverReset =>
        /\ \/ HillClimber1D_param(hc) = Constructed.x
           \/ \E i \in 1..Len(hcHist) :
                 hcHist[i].op = "suggest"
                     /\ hcHist[i].ret = Some(HillClimber1D_param(hc))
        /\ \A i \in 1..Len(hcHist) :
              (hcHist[i].op = "observe"
                  /\ \A j \in 1..(i - 1) : hcHist[j].op # "suggest")
                  => After(i) = hcHist[i].before
        /\ \A i \in 1..Len(hcHist) :
              hcHist[i].op = "suggest" => After(i).x = hcHist[i].before.x

\* observe, suggest, suggest, observe, observe: the first observe found no
\* suggestion and did nothing, the second suggest stepped away from x0, and
\* param() is now that second suggestion, not x0.
C33_Witness ==
    /\ Len(hcHist) = 5
    /\ hcHist[1].op = "observe" /\ hcHist[2].before = Constructed
    /\ hcHist[2].op = "suggest" /\ hcHist[3].op = "suggest"
    /\ hcHist[4].op = "observe" /\ hcHist[5].op = "observe"
    /\ hcHist[3].ret # Some(Constructed.x)
    /\ Some(HillClimber1D_param(hc)) = hcHist[3].ret

\* ------------------------------------------- constructors behind the checks
\* The step in which a create request arrives at task t.
CreateArrives(t) == pc[t] = "idle" /\ pc'[t] # "idle" /\ req'[t].op = "create"

\* C34: no create request makes a constructor panic.  A request is turned
\* away with bad-request before any constructor is called, or the strategy
\* is built, with at least one arm, an epsilon within [0, 1] or a factor of
\* at least 0, and for an epsilon-greedy entry a tracker of a window above
\* 0; the only panic a create can end in is that of the poisoned lock.
C34_ConstructorsHold ==
    [][\A t \in Tasks :
          /\ CreateArrives(t) =>
                \/ pc'[t] = "ret" /\ resp'[t] = BadRequest
                \/ /\ pc'[t] = "lock" /\ resp'[t] = NoResp
                   /\ LET e == req'[t].built
                          n == Len(e.bandit.counts)
                      IN  IF e.tag = "EpsilonGreedy"
                          THEN /\ n > 0 /\ Len(e.bandit.values) = n
                               /\ RGe(e.bandit.epsilon, RZero)
                               /\ RGe(RInt(1), e.bandit.epsilon)
                               /\ e.tracker.window > 0
                          ELSE /\ n > 0 /\ Len(e.bandit.values) = n
                               /\ RGe(e.bandit.c, RZero)
          /\ (Answers(t) /\ req'[t].op = "create" /\ resp'[t] = Panic)
                => (poisoned /\ pc[t] = "lock")]_vars

\* Creates with parameters on the edge of what is accepted have been built
\* and inserted: an epsilon of 1 and a factor of 0.
C34_Witness ==
    /\ pc[1] = "ret" /\ req[1].op = "create" /\ resp[1].status = "ok"
    /\ \E A, B \in DOMAIN map :
          /\ map[A].tag = "EpsilonGreedy" /\ map[A].bandit.epsilon = RInt(1)
          /\ map[B].tag = "Ucb1" /\ map[B].bandit.c = RZero

====
